---- MODULE Spec2Model ----
(***************************************************************************)
(* The smol-llm orchestrator: the per-tier Semaphore (router), the tier    *)
(* policy (policy), the patch parser (executor) and the task driver        *)
(* runOrchestrator (index), as a state machine.                            *)
(*                                                                         *)
(* A process is one asynchronous execution context.  Under Spec process 0 *)
(* is the task driver, running runOrchestrator, and the other processes    *)
(* are peers that share the three semaphores with it through callModel's   *)
(* withPermit; under GateSpec the processes are such callers only.  Steps  *)
(* are cut at the await points of the code.                                *)
(***************************************************************************)
EXTENDS Integers, Sequences, FiniteSets, TLC

\* ---------------------------------------------------------------- bounds

\* Number of contexts sharing the gates with the task driver (Spec).
NumPeers == 1
\* Number of contexts calling withPermit concurrently (GateSpec).
NumCtx == 5
\* Largest total attempt counter of the tasks the policy functions are applied to.
MaxAttempt == 6
\* Largest per-tier attempt counter of those tasks.
MaxTierAttempts == 3
\* Largest number of owned files of the task inputs.
MaxFiles == 6
\* Largest number of lines of the short diffs parsePatch is applied to.
MaxDiffLines == 3
\* Largest number of commands of the lists runVerification is applied to.
MaxCommands == 2
\* Largest number of scripts of the manifests checkWorkspaceHealth is applied to.
MaxScripts == 2

Driver == 0
Peers == 1..NumPeers
Ctxs == 1..NumCtx

\* ------------------------------------------------------------- constants

TIER_ORDER == <<"fast", "deep", "reviewer">>
Tier == {"fast", "deep", "reviewer"}
CONCURRENCY_LIMITS == [fast |-> 4, deep |-> 1, reviewer |-> 2]
MAX_PATCH_LINES == 300
MAX_ATTEMPTS_PER_TIER == 2
MAX_TOTAL_ATTEMPTS == 5
FILE_THRESHOLD == 5
DESCRIPTION_THRESHOLD == 1000

None == "none"

VARIABLES
    permits,      \* Semaphore.permits, one per tier
    queue,        \* Semaphore.queue, one per tier: the resolvers, by owner
    sem,          \* per process: the promise acquire() returned to it
    semaphore,    \* per process: the gate of its withPermit call in progress
    pc,           \* per process: the await point it is suspended at
    task,         \* the driver's local `task` of runOrchestrator
    errors,       \* the driver's local `errors` of runOrchestrator
    patchResult,  \* the driver's local `patchResult` of the current iteration
    prompt,       \* the prompt of the driver's model call in progress (<<>> when none)
    iters,        \* the driver's loop iterations that reached incrementAttempt
    nEscalations, \* the driver's "escalation" events logged
    failures,     \* the kinds of the driver's failed attempts so far
    arrivals,     \* per tier: callers of acquire() not yet admitted, in call order
    via,          \* per process: admitted by its own acquire() or by a release()
    outcome,      \* the ways in which withPermit calls have ended so far
    gates,        \* the tiers whose gates the peers call
    recorded,     \* the error list the driver's latest failed attempt produced
    log,          \* the events the driver logged since its current iteration began
    steps,        \* the steps of the driver's current iteration and how each ended
    modelResponse, \* the response the driver's fn() returned and the driver has
                  \* not parsed yet, in a sequence that is empty when there is none
    arg,          \* FnSpec: the argument a function is applied to
    res           \* FnSpec: the function applied and what it returned

vars == <<permits, queue, sem, semaphore, pc, task, errors, patchResult, prompt,
          iters, nEscalations, failures, arrivals, via, outcome, gates,
          recorded, log, steps, modelResponse, arg, res>>

gateVars == <<permits, queue, sem, semaphore, arrivals, via, outcome, gates>>
driverVars == <<task, errors, patchResult, prompt, iters, nEscalations, failures,
                recorded, log, steps, modelResponse>>
fnVars == <<arg, res>>

\* ------------------------------------------------------------- Semaphore

\* The contexts a gate has admitted and that have not released yet.
Holders(t) ==
    {p \in DOMAIN pc :
        /\ semaphore[p] = t
        /\ (sem[p] = "resolved" \/ pc[p] \in {"create", "fnReturned", "fnThrew"})}

\* arrivals after a step in which the contexts `callers` called acquire() on t:
\* those still waiting, in the order of their calls.
Waiting(s, callers) ==
    LET StillPending(q) == sem'[q] = "pending"
    IN  SelectSeq(s \o callers, StillPending)

\* via after a step in which context p called acquire() or release(): how each
\* context whose acquire() promise is resolved and not yet resumed was admitted.
Admitted(p) ==
    [q \in DOMAIN sem |->
        IF sem[q] = "pending" /\ sem'[q] = "resolved" THEN "handoff"
        ELSE IF q # p THEN via[q]
        ELSE IF sem'[q] = "resolved" THEN "direct"
        ELSE None]

\* Semaphore.acquire queueing the caller whatever the free permits.
acquire_queues(p, t) ==
    /\ permits' = permits
    /\ queue' = [queue EXCEPT ![t] = Append(@, p)]
    /\ sem' = [sem EXCEPT ![p] = "pending"]

\* Semaphore.acquire by context p on the gate of tier t.
acquire(p, t) ==
    IF permits[t] > 0
    THEN /\ permits' = [permits EXCEPT ![t] = @ - 1]
         /\ queue' = queue
         /\ sem' = [sem EXCEPT ![p] = "resolved"]
    ELSE /\ permits' = permits
         /\ queue' = [queue EXCEPT ![t] = Append(@, p)]
         /\ sem' = [sem EXCEPT ![p] = "pending"]

\* Semaphore.release waking the most recent waiter instead of the oldest.
release_lifo(t) ==
    IF Len(queue[t]) > 0
    THEN /\ queue' = [queue EXCEPT ![t] = SubSeq(@, 1, Len(@) - 1)]
         /\ sem' = [sem EXCEPT ![queue[t][Len(queue[t])]] = "resolved"]
         /\ permits' = permits
    ELSE /\ permits' = [permits EXCEPT ![t] = @ + 1]
         /\ queue' = queue
         /\ sem' = sem

\* Semaphore.release returning the permit even when it hands the slot over.
release_and_increment(t) ==
    IF Len(queue[t]) > 0
    THEN /\ queue' = [queue EXCEPT ![t] = Tail(@)]
         /\ sem' = [sem EXCEPT ![Head(queue[t])] = "resolved"]
         /\ permits' = [permits EXCEPT ![t] = @ + 1]
    ELSE /\ permits' = [permits EXCEPT ![t] = @ + 1]
         /\ queue' = queue
         /\ sem' = sem

\* Semaphore.release taking the oldest waiter off the queue without resolving
\* its promise.
release_lost(t) ==
    IF Len(queue[t]) > 0
    THEN /\ queue' = [queue EXCEPT ![t] = Tail(@)]
         /\ sem' = sem
         /\ permits' = permits
    ELSE /\ permits' = [permits EXCEPT ![t] = @ + 1]
         /\ queue' = queue
         /\ sem' = sem

\* Semaphore.release on the gate of tier t.
release(t) ==
    IF Len(queue[t]) > 0
    THEN /\ queue' = [queue EXCEPT ![t] = Tail(@)]
         /\ sem' = [sem EXCEPT ![Head(queue[t])] = "resolved"]
         /\ permits' = permits
    ELSE /\ permits' = [permits EXCEPT ![t] = @ + 1]
         /\ queue' = queue
         /\ sem' = sem

\* Semaphore.withPermit, up to `await this.acquire()`.
withPermitEnter(p, t) ==
    /\ semaphore' = [semaphore EXCEPT ![p] = t]
    /\ acquire(p, t)
    /\ arrivals' = [arrivals EXCEPT ![t] = Waiting(@, <<p>>)]
    /\ via' = Admitted(p)
    /\ UNCHANGED <<outcome, gates>>

\* Semaphore.withPermit returning without the release of the finally block.
withPermitReturn_keeps(p) ==
    /\ UNCHANGED <<permits, queue, sem, semaphore, arrivals, gates>>
    /\ via' = via
    /\ outcome' = outcome \cup {"returned"}

\* Semaphore.withPermit, the finally block, after fn() returned.
withPermitReturn(p) ==
    /\ release(semaphore[p])
    /\ semaphore' = [semaphore EXCEPT ![p] = None]
    /\ arrivals' = [arrivals EXCEPT ![semaphore[p]] = Waiting(@, <<>>)]
    /\ via' = Admitted(p)
    /\ outcome' = outcome \cup {"returned"}
    /\ gates' = gates

\* Semaphore.withPermit with the release on the error path left out.
withPermitThrow_leak(p) ==
    /\ permits' = permits
    /\ queue' = queue
    /\ sem' = sem
    /\ semaphore' = [semaphore EXCEPT ![p] = None]
    /\ arrivals' = arrivals
    /\ via' = Admitted(p)
    /\ outcome' = outcome \cup {"threw"}
    /\ gates' = gates

\* Semaphore.withPermit, the finally block, after fn() threw.
withPermitThrow(p) ==
    /\ release(semaphore[p])
    /\ semaphore' = [semaphore EXCEPT ![p] = None]
    /\ arrivals' = [arrivals EXCEPT ![semaphore[p]] = Waiting(@, <<>>)]
    /\ via' = Admitted(p)
    /\ outcome' = outcome \cup {"threw"}
    /\ gates' = gates

\* The continuation of `await this.acquire()`: fn() starts.
AcquireResume(p) ==
    /\ pc[p] = "acquire"
    /\ sem[p] = "resolved"
    /\ sem' = [sem EXCEPT ![p] = None]
    /\ via' = [via EXCEPT ![p] = None]
    /\ pc' = [pc EXCEPT ![p] = "create"]
    /\ UNCHANGED <<permits, queue, semaphore, arrivals, outcome, gates>>
    /\ UNCHANGED driverVars
    /\ UNCHANGED fnVars

\* ------------------------------------------ callers of withPermit (peers)

NoTask == [id |-> 0, description |-> 0, filesOwned |-> 0, tier |-> None,
           attempt |-> 0, maxAttempts |-> 0,
           tierAttempts |-> [fast |-> 0, deep |-> 0, reviewer |-> 0]]
NoPatchResult == [success |-> FALSE]

\* No function has been applied yet.
NoResult == [fn |-> "none"]

\* History of the driver's failed attempts: the step the latest one failed at
\* with the error list it produced, and the error list of the latest
\* verification failure.
NoFailure == [kind |-> "none", errors |-> <<>>, verify |-> <<>>]

GateInit ==
    /\ permits = CONCURRENCY_LIMITS
    /\ queue = [t \in Tier |-> <<>>]
    /\ arrivals = [t \in Tier |-> <<>>]
    /\ sem = [p \in Ctxs |-> None]
    /\ semaphore = [p \in Ctxs |-> None]
    /\ outcome = {}
    /\ \E t \in Tier : gates = {t}
    /\ via = [p \in Ctxs |-> None]
    /\ pc = [p \in Ctxs |-> "idle"]
    /\ task = NoTask
    /\ errors = <<>>
    /\ patchResult = NoPatchResult
    /\ prompt = <<>>
    /\ iters = 0
    /\ nEscalations = 0
    /\ failures = {}
    /\ recorded = NoFailure
    /\ log = <<>>
    /\ steps = <<>>
    /\ modelResponse = <<>>
    /\ arg = None
    /\ res = NoResult

\* A context calls getSemaphore(t).withPermit(fn).
PeerCall(p) ==
    /\ pc[p] = "idle"
    /\ \E t \in gates : withPermitEnter(p, t)
    /\ pc' = [pc EXCEPT ![p] = "acquire"]
    /\ UNCHANGED driverVars
    /\ UNCHANGED fnVars

\* fn() returns; the finally block releases.
PeerReturns(p) ==
    /\ pc[p] = "create"
    /\ withPermitReturn(p)
    /\ pc' = [pc EXCEPT ![p] = "idle"]
    /\ UNCHANGED driverVars
    /\ UNCHANGED fnVars

\* fn() throws; the finally block releases.
PeerThrows(p) ==
    /\ pc[p] = "create"
    /\ withPermitThrow(p)
    /\ pc' = [pc EXCEPT ![p] = "idle"]
    /\ UNCHANGED driverVars
    /\ UNCHANGED fnVars


\* ---------------------------------------------------------------- policy

\* TIER_ORDER.indexOf
IndexOf(t) == IF \E i \in 1..Len(TIER_ORDER) : TIER_ORDER[i] = t
              THEN CHOOSE i \in 1..Len(TIER_ORDER) : TIER_ORDER[i] = t
              ELSE 0

\* getNextTier giving the last tier for every tier before it.
getNextTier_last(currentTier) ==
    IF IndexOf(currentTier) = 0 \/ IndexOf(currentTier) >= Len(TIER_ORDER)
    THEN None
    ELSE TIER_ORDER[Len(TIER_ORDER)]

getNextTier(currentTier) ==
    IF IndexOf(currentTier) = 0 \/ IndexOf(currentTier) >= Len(TIER_ORDER)
    THEN None
    ELSE TIER_ORDER[IndexOf(currentTier) + 1]

\* shouldEscalate with > in place of >=.
shouldEscalate_gt(tk) ==
    IF tk.tierAttempts[tk.tier] > MAX_ATTEMPTS_PER_TIER
    THEN getNextTier(tk.tier) # None
    ELSE FALSE

shouldEscalate(tk) ==
    IF tk.tierAttempts[tk.tier] >= MAX_ATTEMPTS_PER_TIER
    THEN getNextTier(tk.tier) # None
    ELSE FALSE

\* shouldAbort without the test of the exhausted last tier.
shouldAbort_totalOnly(tk) == tk.attempt >= MAX_TOTAL_ATTEMPTS

shouldAbort(tk) ==
    IF tk.attempt >= MAX_TOTAL_ATTEMPTS
    THEN TRUE
    ELSE IF tk.tierAttempts[tk.tier] >= MAX_ATTEMPTS_PER_TIER
         THEN getNextTier(tk.tier) = None
         ELSE FALSE

\* escalateTask without the test of nextTier.
escalateThrows_never(tk) == FALSE

\* `if (!nextTier) throw new Error(...)`
escalateThrows(tk) == getNextTier(tk.tier) = None

\* The task escalateTask returns when it does not throw.
escalateTask(tk) ==
    [tk EXCEPT !.tier = getNextTier(tk.tier),
               !.attempt = tk.attempt + 1,
               !.tierAttempts[getNextTier(tk.tier)] = 0]

\* incrementAttempt without the increment of the tier's counter.
incrementAttempt_globalOnly(tk) == [tk EXCEPT !.attempt = tk.attempt + 1]

incrementAttempt(tk) ==
    [tk EXCEPT !.attempt = tk.attempt + 1,
               !.tierAttempts[tk.tier] = tk.tierAttempts[tk.tier] + 1]

\* selectInitialTier with >= in place of >.
selectInitialTier_ge(input) ==
    IF input.filesOwned >= FILE_THRESHOLD \/ input.description >= DESCRIPTION_THRESHOLD
    THEN "deep"
    ELSE "fast"

\* A task input, by the length of its description and the number of its files.
selectInitialTier(input) ==
    IF input.filesOwned > FILE_THRESHOLD \/ input.description > DESCRIPTION_THRESHOLD
    THEN "deep"
    ELSE "fast"

\* createTask starting the attempt counter at 1.
createTask_attemptOne(input, id) ==
    [id |-> id, description |-> input.description, filesOwned |-> input.filesOwned,
     tier |-> selectInitialTier(input), attempt |-> 1,
     maxAttempts |-> 5,
     tierAttempts |-> [fast |-> 0, deep |-> 0, reviewer |-> 0]]

createTask(input, id) ==
    [id |-> id, description |-> input.description, filesOwned |-> input.filesOwned,
     tier |-> selectInitialTier(input), attempt |-> 0,
     maxAttempts |-> 5,
     tierAttempts |-> [fast |-> 0, deep |-> 0, reviewer |-> 0]]

\* ------------------------------------------------------- strings of text

\* A text (a command, a process output, an error message) is the sequence
\* of its characters; "\n" is the newline character.

\* String.prototype.includes
Includes(s, pat) ==
    \E i \in 0..(Len(s) - Len(pat)) : SubSeq(s, i + 1, i + Len(pat)) = pat

\* The backquote character, which no TLA+ string can hold.
BackQuote == "backquote"

\* A character is one UTF-16 code unit of a JavaScript string.  A printable
\* ASCII character is the string of that character, "\t", "\n", "\f" and "\r"
\* are the four control characters, and every other code unit is the string
\* of its number, such as "U+00C9" or "U+D801".
HexDigits == <<"0", "1", "2", "3", "4", "5", "6", "7", "8", "9", "A", "B", "C",
               "D", "E", "F">>

\* The characters U+0020 to U+007E.
Printable ==
    <<" ", "!", "\"", "#", "$", "%", "&", "'", "(", ")", "*", "+", ",", "-",
      ".", "/", "0", "1", "2", "3", "4", "5", "6", "7", "8", "9", ":", ";",
      "<", "=", ">", "?", "@", "A", "B", "C", "D", "E", "F", "G", "H", "I",
      "J", "K", "L", "M", "N", "O", "P", "Q", "R", "S", "T", "U", "V", "W",
      "X", "Y", "Z", "[", "\\", "]", "^", "_", BackQuote, "a", "b", "c", "d",
      "e", "f", "g", "h", "i", "j", "k", "l", "m", "n", "o", "p", "q", "r",
      "s", "t", "u", "v", "w", "x", "y", "z", "{", "|", "}", "~">>

\* String.fromCharCode: the character of a code unit.
Char(n) ==
    IF n \in 32..126 THEN Printable[n - 31]
    ELSE IF n = 9 THEN "\t"
    ELSE IF n = 10 THEN "\n"
    ELSE IF n = 12 THEN "\f"
    ELSE IF n = 13 THEN "\r"
    ELSE "U+" \o HexDigits[((n \div 4096) % 16) + 1]
              \o HexDigits[((n \div 256) % 16) + 1]
              \o HexDigits[((n \div 16) % 16) + 1]
              \o HexDigits[(n % 16) + 1]

\* String.prototype.charCodeAt: the code unit of a character.
CodeOf(c) ==
    LET digit(k) == (CHOOSE j \in 1..16 : HexDigits[j] = SubSeq(c, k, k)) - 1
    IN  IF Len(c) = 6 /\ SubSeq(c, 1, 2) = "U+"
        THEN 4096 * digit(3) + 256 * digit(4) + 16 * digit(5) + digit(6)
        ELSE IF c = "\t" THEN 9
        ELSE IF c = "\n" THEN 10
        ELSE IF c = "\f" THEN 12
        ELSE IF c = "\r" THEN 13
        ELSE 31 + (CHOOSE k \in 1..Len(Printable) : Printable[k] = c)

\* The ranges <<first, last>> of the code points outside ASCII with the
\* property Cased and without the property Case_Ignorable (Unicode 17.0).
CasedRanges ==
    {<<\h00AA, \h00AA>>, <<\h00B5, \h00B5>>, <<\h00BA, \h00BA>>,
     <<\h00C0, \h00D6>>, <<\h00D8, \h00F6>>, <<\h00F8, \h01BA>>,
     <<\h01BC, \h01BF>>, <<\h01C4, \h0293>>, <<\h0296, \h02AF>>,
     <<\h0370, \h0373>>, <<\h0376, \h0377>>, <<\h037B, \h037D>>,
     <<\h037F, \h037F>>, <<\h0386, \h0386>>, <<\h0388, \h038A>>,
     <<\h038C, \h038C>>, <<\h038E, \h03A1>>, <<\h03A3, \h03F5>>,
     <<\h03F7, \h0481>>, <<\h048A, \h052F>>, <<\h0531, \h0556>>,
     <<\h0560, \h0588>>, <<\h10A0, \h10C5>>, <<\h10C7, \h10C7>>,
     <<\h10CD, \h10CD>>, <<\h10D0, \h10FA>>, <<\h10FD, \h10FF>>,
     <<\h13A0, \h13F5>>, <<\h13F8, \h13FD>>, <<\h1C80, \h1C8A>>,
     <<\h1C90, \h1CBA>>, <<\h1CBD, \h1CBF>>, <<\h1D00, \h1D2B>>,
     <<\h1D6B, \h1D77>>, <<\h1D79, \h1D9A>>, <<\h1E00, \h1F15>>,
     <<\h1F18, \h1F1D>>, <<\h1F20, \h1F45>>, <<\h1F48, \h1F4D>>,
     <<\h1F50, \h1F57>>, <<\h1F59, \h1F59>>, <<\h1F5B, \h1F5B>>,
     <<\h1F5D, \h1F5D>>, <<\h1F5F, \h1F7D>>, <<\h1F80, \h1FB4>>,
     <<\h1FB6, \h1FBC>>, <<\h1FBE, \h1FBE>>, <<\h1FC2, \h1FC4>>,
     <<\h1FC6, \h1FCC>>, <<\h1FD0, \h1FD3>>, <<\h1FD6, \h1FDB>>,
     <<\h1FE0, \h1FEC>>, <<\h1FF2, \h1FF4>>, <<\h1FF6, \h1FFC>>,
     <<\h2102, \h2102>>, <<\h2107, \h2107>>, <<\h210A, \h2113>>,
     <<\h2115, \h2115>>, <<\h2119, \h211D>>, <<\h2124, \h2124>>,
     <<\h2126, \h2126>>, <<\h2128, \h2128>>, <<\h212A, \h212D>>,
     <<\h212F, \h2134>>, <<\h2139, \h2139>>, <<\h213C, \h213F>>,
     <<\h2145, \h2149>>, <<\h214E, \h214E>>, <<\h2160, \h217F>>,
     <<\h2183, \h2184>>, <<\h24B6, \h24E9>>, <<\h2C00, \h2C7B>>,
     <<\h2C7E, \h2CE4>>, <<\h2CEB, \h2CEE>>, <<\h2CF2, \h2CF3>>,
     <<\h2D00, \h2D25>>, <<\h2D27, \h2D27>>, <<\h2D2D, \h2D2D>>,
     <<\hA640, \hA66D>>, <<\hA680, \hA69B>>, <<\hA722, \hA76F>>,
     <<\hA771, \hA787>>, <<\hA78B, \hA78E>>, <<\hA790, \hA7DC>>,
     <<\hA7F5, \hA7F6>>, <<\hA7FA, \hA7FA>>, <<\hAB30, \hAB5A>>,
     <<\hAB60, \hAB68>>, <<\hAB70, \hABBF>>, <<\hFB00, \hFB06>>,
     <<\hFB13, \hFB17>>, <<\hFF21, \hFF3A>>, <<\hFF41, \hFF5A>>,
     <<\h10400, \h1044F>>, <<\h104B0, \h104D3>>, <<\h104D8, \h104FB>>,
     <<\h10570, \h1057A>>, <<\h1057C, \h1058A>>, <<\h1058C, \h10592>>,
     <<\h10594, \h10595>>, <<\h10597, \h105A1>>, <<\h105A3, \h105B1>>,
     <<\h105B3, \h105B9>>, <<\h105BB, \h105BC>>, <<\h10C80, \h10CB2>>,
     <<\h10CC0, \h10CF2>>, <<\h10D50, \h10D65>>, <<\h10D70, \h10D85>>,
     <<\h118A0, \h118DF>>, <<\h16E40, \h16E7F>>, <<\h16EA0, \h16EB8>>,
     <<\h16EBB, \h16ED3>>, <<\h1D400, \h1D454>>, <<\h1D456, \h1D49C>>,
     <<\h1D49E, \h1D49F>>, <<\h1D4A2, \h1D4A2>>, <<\h1D4A5, \h1D4A6>>,
     <<\h1D4A9, \h1D4AC>>, <<\h1D4AE, \h1D4B9>>, <<\h1D4BB, \h1D4BB>>,
     <<\h1D4BD, \h1D4C3>>, <<\h1D4C5, \h1D505>>, <<\h1D507, \h1D50A>>,
     <<\h1D50D, \h1D514>>, <<\h1D516, \h1D51C>>, <<\h1D51E, \h1D539>>,
     <<\h1D53B, \h1D53E>>, <<\h1D540, \h1D544>>, <<\h1D546, \h1D546>>,
     <<\h1D54A, \h1D550>>, <<\h1D552, \h1D6A5>>, <<\h1D6A8, \h1D6C0>>,
     <<\h1D6C2, \h1D6DA>>, <<\h1D6DC, \h1D6FA>>, <<\h1D6FC, \h1D714>>,
     <<\h1D716, \h1D734>>, <<\h1D736, \h1D74E>>, <<\h1D750, \h1D76E>>,
     <<\h1D770, \h1D788>>, <<\h1D78A, \h1D7A8>>, <<\h1D7AA, \h1D7C2>>,
     <<\h1D7C4, \h1D7CB>>, <<\h1DF00, \h1DF09>>, <<\h1DF0B, \h1DF1E>>,
     <<\h1DF25, \h1DF2A>>, <<\h1E900, \h1E943>>, <<\h1F130, \h1F149>>,
     <<\h1F150, \h1F169>>, <<\h1F170, \h1F189>>}

\* The ranges <<first, last>> of the code points outside ASCII with the
\* property Case_Ignorable (Unicode 17.0).
IgnorableRanges ==
    {<<\h00A8, \h00A8>>, <<\h00AD, \h00AD>>, <<\h00AF, \h00AF>>,
     <<\h00B4, \h00B4>>, <<\h00B7, \h00B8>>, <<\h02B0, \h036F>>,
     <<\h0374, \h0375>>, <<\h037A, \h037A>>, <<\h0384, \h0385>>,
     <<\h0387, \h0387>>, <<\h0483, \h0489>>, <<\h0559, \h0559>>,
     <<\h055F, \h055F>>, <<\h0591, \h05BD>>, <<\h05BF, \h05BF>>,
     <<\h05C1, \h05C2>>, <<\h05C4, \h05C5>>, <<\h05C7, \h05C7>>,
     <<\h05F4, \h05F4>>, <<\h0600, \h0605>>, <<\h0610, \h061A>>,
     <<\h061C, \h061C>>, <<\h0640, \h0640>>, <<\h064B, \h065F>>,
     <<\h0670, \h0670>>, <<\h06D6, \h06DD>>, <<\h06DF, \h06E8>>,
     <<\h06EA, \h06ED>>, <<\h070F, \h070F>>, <<\h0711, \h0711>>,
     <<\h0730, \h074A>>, <<\h07A6, \h07B0>>, <<\h07EB, \h07F5>>,
     <<\h07FA, \h07FA>>, <<\h07FD, \h07FD>>, <<\h0816, \h082D>>,
     <<\h0859, \h085B>>, <<\h0888, \h0888>>, <<\h0890, \h0891>>,
     <<\h0897, \h089F>>, <<\h08C9, \h0902>>, <<\h093A, \h093A>>,
     <<\h093C, \h093C>>, <<\h0941, \h0948>>, <<\h094D, \h094D>>,
     <<\h0951, \h0957>>, <<\h0962, \h0963>>, <<\h0971, \h0971>>,
     <<\h0981, \h0981>>, <<\h09BC, \h09BC>>, <<\h09C1, \h09C4>>,
     <<\h09CD, \h09CD>>, <<\h09E2, \h09E3>>, <<\h09FE, \h09FE>>,
     <<\h0A01, \h0A02>>, <<\h0A3C, \h0A3C>>, <<\h0A41, \h0A42>>,
     <<\h0A47, \h0A48>>, <<\h0A4B, \h0A4D>>, <<\h0A51, \h0A51>>,
     <<\h0A70, \h0A71>>, <<\h0A75, \h0A75>>, <<\h0A81, \h0A82>>,
     <<\h0ABC, \h0ABC>>, <<\h0AC1, \h0AC5>>, <<\h0AC7, \h0AC8>>,
     <<\h0ACD, \h0ACD>>, <<\h0AE2, \h0AE3>>, <<\h0AFA, \h0AFF>>,
     <<\h0B01, \h0B01>>, <<\h0B3C, \h0B3C>>, <<\h0B3F, \h0B3F>>,
     <<\h0B41, \h0B44>>, <<\h0B4D, \h0B4D>>, <<\h0B55, \h0B56>>,
     <<\h0B62, \h0B63>>, <<\h0B82, \h0B82>>, <<\h0BC0, \h0BC0>>,
     <<\h0BCD, \h0BCD>>, <<\h0C00, \h0C00>>, <<\h0C04, \h0C04>>,
     <<\h0C3C, \h0C3C>>, <<\h0C3E, \h0C40>>, <<\h0C46, \h0C48>>,
     <<\h0C4A, \h0C4D>>, <<\h0C55, \h0C56>>, <<\h0C62, \h0C63>>,
     <<\h0C81, \h0C81>>, <<\h0CBC, \h0CBC>>, <<\h0CBF, \h0CBF>>,
     <<\h0CC6, \h0CC6>>, <<\h0CCC, \h0CCD>>, <<\h0CE2, \h0CE3>>,
     <<\h0D00, \h0D01>>, <<\h0D3B, \h0D3C>>, <<\h0D41, \h0D44>>,
     <<\h0D4D, \h0D4D>>, <<\h0D62, \h0D63>>, <<\h0D81, \h0D81>>,
     <<\h0DCA, \h0DCA>>, <<\h0DD2, \h0DD4>>, <<\h0DD6, \h0DD6>>,
     <<\h0E31, \h0E31>>, <<\h0E34, \h0E3A>>, <<\h0E46, \h0E4E>>,
     <<\h0EB1, \h0EB1>>, <<\h0EB4, \h0EBC>>, <<\h0EC6, \h0EC6>>,
     <<\h0EC8, \h0ECE>>, <<\h0F18, \h0F19>>, <<\h0F35, \h0F35>>,
     <<\h0F37, \h0F37>>, <<\h0F39, \h0F39>>, <<\h0F71, \h0F7E>>,
     <<\h0F80, \h0F84>>, <<\h0F86, \h0F87>>, <<\h0F8D, \h0F97>>,
     <<\h0F99, \h0FBC>>, <<\h0FC6, \h0FC6>>, <<\h102D, \h1030>>,
     <<\h1032, \h1037>>, <<\h1039, \h103A>>, <<\h103D, \h103E>>,
     <<\h1058, \h1059>>, <<\h105E, \h1060>>, <<\h1071, \h1074>>,
     <<\h1082, \h1082>>, <<\h1085, \h1086>>, <<\h108D, \h108D>>,
     <<\h109D, \h109D>>, <<\h10FC, \h10FC>>, <<\h135D, \h135F>>,
     <<\h1712, \h1714>>, <<\h1732, \h1733>>, <<\h1752, \h1753>>,
     <<\h1772, \h1773>>, <<\h17B4, \h17B5>>, <<\h17B7, \h17BD>>,
     <<\h17C6, \h17C6>>, <<\h17C9, \h17D3>>, <<\h17D7, \h17D7>>,
     <<\h17DD, \h17DD>>, <<\h180B, \h180F>>, <<\h1843, \h1843>>,
     <<\h1885, \h1886>>, <<\h18A9, \h18A9>>, <<\h1920, \h1922>>,
     <<\h1927, \h1928>>, <<\h1932, \h1932>>, <<\h1939, \h193B>>,
     <<\h1A17, \h1A18>>, <<\h1A1B, \h1A1B>>, <<\h1A56, \h1A56>>,
     <<\h1A58, \h1A5E>>, <<\h1A60, \h1A60>>, <<\h1A62, \h1A62>>,
     <<\h1A65, \h1A6C>>, <<\h1A73, \h1A7C>>, <<\h1A7F, \h1A7F>>,
     <<\h1AA7, \h1AA7>>, <<\h1AB0, \h1ADD>>, <<\h1AE0, \h1AEB>>,
     <<\h1B00, \h1B03>>, <<\h1B34, \h1B34>>, <<\h1B36, \h1B3A>>,
     <<\h1B3C, \h1B3C>>, <<\h1B42, \h1B42>>, <<\h1B6B, \h1B73>>,
     <<\h1B80, \h1B81>>, <<\h1BA2, \h1BA5>>, <<\h1BA8, \h1BA9>>,
     <<\h1BAB, \h1BAD>>, <<\h1BE6, \h1BE6>>, <<\h1BE8, \h1BE9>>,
     <<\h1BED, \h1BED>>, <<\h1BEF, \h1BF1>>, <<\h1C2C, \h1C33>>,
     <<\h1C36, \h1C37>>, <<\h1C78, \h1C7D>>, <<\h1CD0, \h1CD2>>,
     <<\h1CD4, \h1CE0>>, <<\h1CE2, \h1CE8>>, <<\h1CED, \h1CED>>,
     <<\h1CF4, \h1CF4>>, <<\h1CF8, \h1CF9>>, <<\h1D2C, \h1D6A>>,
     <<\h1D78, \h1D78>>, <<\h1D9B, \h1DFF>>, <<\h1FBD, \h1FBD>>,
     <<\h1FBF, \h1FC1>>, <<\h1FCD, \h1FCF>>, <<\h1FDD, \h1FDF>>,
     <<\h1FED, \h1FEF>>, <<\h1FFD, \h1FFE>>, <<\h200B, \h200F>>,
     <<\h2018, \h2019>>, <<\h2024, \h2024>>, <<\h2027, \h2027>>,
     <<\h202A, \h202E>>, <<\h2060, \h2064>>, <<\h2066, \h206F>>,
     <<\h2071, \h2071>>, <<\h207F, \h207F>>, <<\h2090, \h209C>>,
     <<\h20D0, \h20F0>>, <<\h2C7C, \h2C7D>>, <<\h2CEF, \h2CF1>>,
     <<\h2D6F, \h2D6F>>, <<\h2D7F, \h2D7F>>, <<\h2DE0, \h2DFF>>,
     <<\h2E2F, \h2E2F>>, <<\h3005, \h3005>>, <<\h302A, \h302D>>,
     <<\h3031, \h3035>>, <<\h303B, \h303B>>, <<\h3099, \h309E>>,
     <<\h30FC, \h30FE>>, <<\hA015, \hA015>>, <<\hA4F8, \hA4FD>>,
     <<\hA60C, \hA60C>>, <<\hA66F, \hA672>>, <<\hA674, \hA67D>>,
     <<\hA67F, \hA67F>>, <<\hA69C, \hA69F>>, <<\hA6F0, \hA6F1>>,
     <<\hA700, \hA721>>, <<\hA770, \hA770>>, <<\hA788, \hA78A>>,
     <<\hA7F1, \hA7F4>>, <<\hA7F8, \hA7F9>>, <<\hA802, \hA802>>,
     <<\hA806, \hA806>>, <<\hA80B, \hA80B>>, <<\hA825, \hA826>>,
     <<\hA82C, \hA82C>>, <<\hA8C4, \hA8C5>>, <<\hA8E0, \hA8F1>>,
     <<\hA8FF, \hA8FF>>, <<\hA926, \hA92D>>, <<\hA947, \hA951>>,
     <<\hA980, \hA982>>, <<\hA9B3, \hA9B3>>, <<\hA9B6, \hA9B9>>,
     <<\hA9BC, \hA9BD>>, <<\hA9CF, \hA9CF>>, <<\hA9E5, \hA9E6>>,
     <<\hAA29, \hAA2E>>, <<\hAA31, \hAA32>>, <<\hAA35, \hAA36>>,
     <<\hAA43, \hAA43>>, <<\hAA4C, \hAA4C>>, <<\hAA70, \hAA70>>,
     <<\hAA7C, \hAA7C>>, <<\hAAB0, \hAAB0>>, <<\hAAB2, \hAAB4>>,
     <<\hAAB7, \hAAB8>>, <<\hAABE, \hAABF>>, <<\hAAC1, \hAAC1>>,
     <<\hAADD, \hAADD>>, <<\hAAEC, \hAAED>>, <<\hAAF3, \hAAF4>>,
     <<\hAAF6, \hAAF6>>, <<\hAB5B, \hAB5F>>, <<\hAB69, \hAB6B>>,
     <<\hABE5, \hABE5>>, <<\hABE8, \hABE8>>, <<\hABED, \hABED>>,
     <<\hFB1E, \hFB1E>>, <<\hFBB2, \hFBC2>>, <<\hFE00, \hFE0F>>,
     <<\hFE13, \hFE13>>, <<\hFE20, \hFE2F>>, <<\hFE52, \hFE52>>,
     <<\hFE55, \hFE55>>, <<\hFEFF, \hFEFF>>, <<\hFF07, \hFF07>>,
     <<\hFF0E, \hFF0E>>, <<\hFF1A, \hFF1A>>, <<\hFF3E, \hFF3E>>,
     <<\hFF40, \hFF40>>, <<\hFF70, \hFF70>>, <<\hFF9E, \hFF9F>>,
     <<\hFFE3, \hFFE3>>, <<\hFFF9, \hFFFB>>, <<\h101FD, \h101FD>>,
     <<\h102E0, \h102E0>>, <<\h10376, \h1037A>>, <<\h10780, \h10785>>,
     <<\h10787, \h107B0>>, <<\h107B2, \h107BA>>, <<\h10A01, \h10A03>>,
     <<\h10A05, \h10A06>>, <<\h10A0C, \h10A0F>>, <<\h10A38, \h10A3A>>,
     <<\h10A3F, \h10A3F>>, <<\h10AE5, \h10AE6>>, <<\h10D24, \h10D27>>,
     <<\h10D4E, \h10D4E>>, <<\h10D69, \h10D6D>>, <<\h10D6F, \h10D6F>>,
     <<\h10EAB, \h10EAC>>, <<\h10EC5, \h10EC5>>, <<\h10EFA, \h10EFF>>,
     <<\h10F46, \h10F50>>, <<\h10F82, \h10F85>>, <<\h11001, \h11001>>,
     <<\h11038, \h11046>>, <<\h11070, \h11070>>, <<\h11073, \h11074>>,
     <<\h1107F, \h11081>>, <<\h110B3, \h110B6>>, <<\h110B9, \h110BA>>,
     <<\h110BD, \h110BD>>, <<\h110C2, \h110C2>>, <<\h110CD, \h110CD>>,
     <<\h11100, \h11102>>, <<\h11127, \h1112B>>, <<\h1112D, \h11134>>,
     <<\h11173, \h11173>>, <<\h11180, \h11181>>, <<\h111B6, \h111BE>>,
     <<\h111C9, \h111CC>>, <<\h111CF, \h111CF>>, <<\h1122F, \h11231>>,
     <<\h11234, \h11234>>, <<\h11236, \h11237>>, <<\h1123E, \h1123E>>,
     <<\h11241, \h11241>>, <<\h112DF, \h112DF>>, <<\h112E3, \h112EA>>,
     <<\h11300, \h11301>>, <<\h1133B, \h1133C>>, <<\h11340, \h11340>>,
     <<\h11366, \h1136C>>, <<\h11370, \h11374>>, <<\h113BB, \h113C0>>,
     <<\h113CE, \h113CE>>, <<\h113D0, \h113D0>>, <<\h113D2, \h113D2>>,
     <<\h113E1, \h113E2>>, <<\h11438, \h1143F>>, <<\h11442, \h11444>>,
     <<\h11446, \h11446>>, <<\h1145E, \h1145E>>, <<\h114B3, \h114B8>>,
     <<\h114BA, \h114BA>>, <<\h114BF, \h114C0>>, <<\h114C2, \h114C3>>,
     <<\h115B2, \h115B5>>, <<\h115BC, \h115BD>>, <<\h115BF, \h115C0>>,
     <<\h115DC, \h115DD>>, <<\h11633, \h1163A>>, <<\h1163D, \h1163D>>,
     <<\h1163F, \h11640>>, <<\h116AB, \h116AB>>, <<\h116AD, \h116AD>>,
     <<\h116B0, \h116B5>>, <<\h116B7, \h116B7>>, <<\h1171D, \h1171D>>,
     <<\h1171F, \h1171F>>, <<\h11722, \h11725>>, <<\h11727, \h1172B>>,
     <<\h1182F, \h11837>>, <<\h11839, \h1183A>>, <<\h1193B, \h1193C>>,
     <<\h1193E, \h1193E>>, <<\h11943, \h11943>>, <<\h119D4, \h119D7>>,
     <<\h119DA, \h119DB>>, <<\h119E0, \h119E0>>, <<\h11A01, \h11A0A>>,
     <<\h11A33, \h11A38>>, <<\h11A3B, \h11A3E>>, <<\h11A47, \h11A47>>,
     <<\h11A51, \h11A56>>, <<\h11A59, \h11A5B>>, <<\h11A8A, \h11A96>>,
     <<\h11A98, \h11A99>>, <<\h11B60, \h11B60>>, <<\h11B62, \h11B64>>,
     <<\h11B66, \h11B66>>, <<\h11C30, \h11C36>>, <<\h11C38, \h11C3D>>,
     <<\h11C3F, \h11C3F>>, <<\h11C92, \h11CA7>>, <<\h11CAA, \h11CB0>>,
     <<\h11CB2, \h11CB3>>, <<\h11CB5, \h11CB6>>, <<\h11D31, \h11D36>>,
     <<\h11D3A, \h11D3A>>, <<\h11D3C, \h11D3D>>, <<\h11D3F, \h11D45>>,
     <<\h11D47, \h11D47>>, <<\h11D90, \h11D91>>, <<\h11D95, \h11D95>>,
     <<\h11D97, \h11D97>>, <<\h11DD9, \h11DD9>>, <<\h11EF3, \h11EF4>>,
     <<\h11F00, \h11F01>>, <<\h11F36, \h11F3A>>, <<\h11F40, \h11F40>>,
     <<\h11F42, \h11F42>>, <<\h11F5A, \h11F5A>>, <<\h13430, \h13440>>,
     <<\h13447, \h13455>>, <<\h1611E, \h16129>>, <<\h1612D, \h1612F>>,
     <<\h16AF0, \h16AF4>>, <<\h16B30, \h16B36>>, <<\h16B40, \h16B43>>,
     <<\h16D40, \h16D42>>, <<\h16D6B, \h16D6C>>, <<\h16F4F, \h16F4F>>,
     <<\h16F8F, \h16F9F>>, <<\h16FE0, \h16FE1>>, <<\h16FE3, \h16FE4>>,
     <<\h16FF2, \h16FF3>>, <<\h1AFF0, \h1AFF3>>, <<\h1AFF5, \h1AFFB>>,
     <<\h1AFFD, \h1AFFE>>, <<\h1BC9D, \h1BC9E>>, <<\h1BCA0, \h1BCA3>>,
     <<\h1CF00, \h1CF2D>>, <<\h1CF30, \h1CF46>>, <<\h1D167, \h1D169>>,
     <<\h1D173, \h1D182>>, <<\h1D185, \h1D18B>>, <<\h1D1AA, \h1D1AD>>,
     <<\h1D242, \h1D244>>, <<\h1DA00, \h1DA36>>, <<\h1DA3B, \h1DA6C>>,
     <<\h1DA75, \h1DA75>>, <<\h1DA84, \h1DA84>>, <<\h1DA9B, \h1DA9F>>,
     <<\h1DAA1, \h1DAAF>>, <<\h1E000, \h1E006>>, <<\h1E008, \h1E018>>,
     <<\h1E01B, \h1E021>>, <<\h1E023, \h1E024>>, <<\h1E026, \h1E02A>>,
     <<\h1E030, \h1E06D>>, <<\h1E08F, \h1E08F>>, <<\h1E130, \h1E13D>>,
     <<\h1E2AE, \h1E2AE>>, <<\h1E2EC, \h1E2EF>>, <<\h1E4EB, \h1E4EF>>,
     <<\h1E5EE, \h1E5EF>>, <<\h1E6E3, \h1E6E3>>, <<\h1E6E6, \h1E6E6>>,
     <<\h1E6EE, \h1E6EF>>, <<\h1E6F5, \h1E6F5>>, <<\h1E6FF, \h1E6FF>>,
     <<\h1E8D0, \h1E8D6>>, <<\h1E944, \h1E94B>>, <<\h1F3FB, \h1F3FF>>,
     <<\hE0001, \hE0001>>, <<\hE0020, \hE007F>>, <<\hE0100, \hE01EF>>}

\* The simple lower-case mappings of the Unicode Character Database outside
\* ASCII (Unicode 17.0): <<first, last, step, d>> maps the code points first,
\* first + step, ..., last to the code point d further.
LowerRuns ==
    {<<\h00C0, \h00D6, 1, 32>>, <<\h00D8, \h00DE, 1, 32>>,
     <<\h0100, \h012E, 2, 1>>, <<\h0132, \h0136, 2, 1>>,
     <<\h0139, \h0147, 2, 1>>, <<\h014A, \h0176, 2, 1>>,
     <<\h0178, \h0178, 1, -121>>, <<\h0179, \h017D, 2, 1>>,
     <<\h0181, \h0181, 1, 210>>, <<\h0182, \h0184, 2, 1>>,
     <<\h0186, \h0186, 1, 206>>, <<\h0187, \h0187, 1, 1>>,
     <<\h0189, \h018A, 1, 205>>, <<\h018B, \h018B, 1, 1>>,
     <<\h018E, \h018E, 1, 79>>, <<\h018F, \h018F, 1, 202>>,
     <<\h0190, \h0190, 1, 203>>, <<\h0191, \h0191, 1, 1>>,
     <<\h0193, \h0193, 1, 205>>, <<\h0194, \h0194, 1, 207>>,
     <<\h0196, \h0196, 1, 211>>, <<\h0197, \h0197, 1, 209>>,
     <<\h0198, \h0198, 1, 1>>, <<\h019C, \h019C, 1, 211>>,
     <<\h019D, \h019D, 1, 213>>, <<\h019F, \h019F, 1, 214>>,
     <<\h01A0, \h01A4, 2, 1>>, <<\h01A6, \h01A6, 1, 218>>,
     <<\h01A7, \h01A7, 1, 1>>, <<\h01A9, \h01A9, 1, 218>>,
     <<\h01AC, \h01AC, 1, 1>>, <<\h01AE, \h01AE, 1, 218>>,
     <<\h01AF, \h01AF, 1, 1>>, <<\h01B1, \h01B2, 1, 217>>,
     <<\h01B3, \h01B5, 2, 1>>, <<\h01B7, \h01B7, 1, 219>>,
     <<\h01B8, \h01B8, 1, 1>>, <<\h01BC, \h01BC, 1, 1>>,
     <<\h01C4, \h01C4, 1, 2>>, <<\h01C5, \h01C5, 1, 1>>,
     <<\h01C7, \h01C7, 1, 2>>, <<\h01C8, \h01C8, 1, 1>>,
     <<\h01CA, \h01CA, 1, 2>>, <<\h01CB, \h01DB, 2, 1>>,
     <<\h01DE, \h01EE, 2, 1>>, <<\h01F1, \h01F1, 1, 2>>,
     <<\h01F2, \h01F4, 2, 1>>, <<\h01F6, \h01F6, 1, -97>>,
     <<\h01F7, \h01F7, 1, -56>>, <<\h01F8, \h021E, 2, 1>>,
     <<\h0220, \h0220, 1, -130>>, <<\h0222, \h0232, 2, 1>>,
     <<\h023A, \h023A, 1, 10795>>, <<\h023B, \h023B, 1, 1>>,
     <<\h023D, \h023D, 1, -163>>, <<\h023E, \h023E, 1, 10792>>,
     <<\h0241, \h0241, 1, 1>>, <<\h0243, \h0243, 1, -195>>,
     <<\h0244, \h0244, 1, 69>>, <<\h0245, \h0245, 1, 71>>,
     <<\h0246, \h024E, 2, 1>>, <<\h0370, \h0372, 2, 1>>,
     <<\h0376, \h0376, 1, 1>>, <<\h037F, \h037F, 1, 116>>,
     <<\h0386, \h0386, 1, 38>>, <<\h0388, \h038A, 1, 37>>,
     <<\h038C, \h038C, 1, 64>>, <<\h038E, \h038F, 1, 63>>,
     <<\h0391, \h03A1, 1, 32>>, <<\h03A3, \h03AB, 1, 32>>,
     <<\h03CF, \h03CF, 1, 8>>, <<\h03D8, \h03EE, 2, 1>>,
     <<\h03F4, \h03F4, 1, -60>>, <<\h03F7, \h03F7, 1, 1>>,
     <<\h03F9, \h03F9, 1, -7>>, <<\h03FA, \h03FA, 1, 1>>,
     <<\h03FD, \h03FF, 1, -130>>, <<\h0400, \h040F, 1, 80>>,
     <<\h0410, \h042F, 1, 32>>, <<\h0460, \h0480, 2, 1>>,
     <<\h048A, \h04BE, 2, 1>>, <<\h04C0, \h04C0, 1, 15>>,
     <<\h04C1, \h04CD, 2, 1>>, <<\h04D0, \h052E, 2, 1>>,
     <<\h0531, \h0556, 1, 48>>, <<\h10A0, \h10C5, 1, 7264>>,
     <<\h10C7, \h10C7, 1, 7264>>, <<\h10CD, \h10CD, 1, 7264>>,
     <<\h13A0, \h13EF, 1, 38864>>, <<\h13F0, \h13F5, 1, 8>>,
     <<\h1C89, \h1C89, 1, 1>>, <<\h1C90, \h1CBA, 1, -3008>>,
     <<\h1CBD, \h1CBF, 1, -3008>>, <<\h1E00, \h1E94, 2, 1>>,
     <<\h1E9E, \h1E9E, 1, -7615>>, <<\h1EA0, \h1EFE, 2, 1>>,
     <<\h1F08, \h1F0F, 1, -8>>, <<\h1F18, \h1F1D, 1, -8>>,
     <<\h1F28, \h1F2F, 1, -8>>, <<\h1F38, \h1F3F, 1, -8>>,
     <<\h1F48, \h1F4D, 1, -8>>, <<\h1F59, \h1F5F, 2, -8>>,
     <<\h1F68, \h1F6F, 1, -8>>, <<\h1F88, \h1F8F, 1, -8>>,
     <<\h1F98, \h1F9F, 1, -8>>, <<\h1FA8, \h1FAF, 1, -8>>,
     <<\h1FB8, \h1FB9, 1, -8>>, <<\h1FBA, \h1FBB, 1, -74>>,
     <<\h1FBC, \h1FBC, 1, -9>>, <<\h1FC8, \h1FCB, 1, -86>>,
     <<\h1FCC, \h1FCC, 1, -9>>, <<\h1FD8, \h1FD9, 1, -8>>,
     <<\h1FDA, \h1FDB, 1, -100>>, <<\h1FE8, \h1FE9, 1, -8>>,
     <<\h1FEA, \h1FEB, 1, -112>>, <<\h1FEC, \h1FEC, 1, -7>>,
     <<\h1FF8, \h1FF9, 1, -128>>, <<\h1FFA, \h1FFB, 1, -126>>,
     <<\h1FFC, \h1FFC, 1, -9>>, <<\h2126, \h2126, 1, -7517>>,
     <<\h212A, \h212A, 1, -8383>>, <<\h212B, \h212B, 1, -8262>>,
     <<\h2132, \h2132, 1, 28>>, <<\h2160, \h216F, 1, 16>>,
     <<\h2183, \h2183, 1, 1>>, <<\h24B6, \h24CF, 1, 26>>,
     <<\h2C00, \h2C2F, 1, 48>>, <<\h2C60, \h2C60, 1, 1>>,
     <<\h2C62, \h2C62, 1, -10743>>, <<\h2C63, \h2C63, 1, -3814>>,
     <<\h2C64, \h2C64, 1, -10727>>, <<\h2C67, \h2C6B, 2, 1>>,
     <<\h2C6D, \h2C6D, 1, -10780>>, <<\h2C6E, \h2C6E, 1, -10749>>,
     <<\h2C6F, \h2C6F, 1, -10783>>, <<\h2C70, \h2C70, 1, -10782>>,
     <<\h2C72, \h2C72, 1, 1>>, <<\h2C75, \h2C75, 1, 1>>,
     <<\h2C7E, \h2C7F, 1, -10815>>, <<\h2C80, \h2CE2, 2, 1>>,
     <<\h2CEB, \h2CED, 2, 1>>, <<\h2CF2, \h2CF2, 1, 1>>,
     <<\hA640, \hA66C, 2, 1>>, <<\hA680, \hA69A, 2, 1>>,
     <<\hA722, \hA72E, 2, 1>>, <<\hA732, \hA76E, 2, 1>>,
     <<\hA779, \hA77B, 2, 1>>, <<\hA77D, \hA77D, 1, -35332>>,
     <<\hA77E, \hA786, 2, 1>>, <<\hA78B, \hA78B, 1, 1>>,
     <<\hA78D, \hA78D, 1, -42280>>, <<\hA790, \hA792, 2, 1>>,
     <<\hA796, \hA7A8, 2, 1>>, <<\hA7AA, \hA7AA, 1, -42308>>,
     <<\hA7AB, \hA7AB, 1, -42319>>, <<\hA7AC, \hA7AC, 1, -42315>>,
     <<\hA7AD, \hA7AD, 1, -42305>>, <<\hA7AE, \hA7AE, 1, -42308>>,
     <<\hA7B0, \hA7B0, 1, -42258>>, <<\hA7B1, \hA7B1, 1, -42282>>,
     <<\hA7B2, \hA7B2, 1, -42261>>, <<\hA7B3, \hA7B3, 1, 928>>,
     <<\hA7B4, \hA7C2, 2, 1>>, <<\hA7C4, \hA7C4, 1, -48>>,
     <<\hA7C5, \hA7C5, 1, -42307>>, <<\hA7C6, \hA7C6, 1, -35384>>,
     <<\hA7C7, \hA7C9, 2, 1>>, <<\hA7CB, \hA7CB, 1, -42343>>,
     <<\hA7CC, \hA7DA, 2, 1>>, <<\hA7DC, \hA7DC, 1, -42561>>,
     <<\hA7F5, \hA7F5, 1, 1>>, <<\hFF21, \hFF3A, 1, 32>>,
     <<\h10400, \h10427, 1, 40>>, <<\h104B0, \h104D3, 1, 40>>,
     <<\h10570, \h10594, 2, 39>>, <<\h10571, \h10579, 2, 39>>,
     <<\h1057D, \h10589, 2, 39>>, <<\h1058D, \h10591, 2, 39>>,
     <<\h10595, \h10595, 1, 39>>, <<\h10C80, \h10CB2, 1, 64>>,
     <<\h10D50, \h10D65, 1, 32>>, <<\h118A0, \h118BF, 1, 32>>,
     <<\h16E40, \h16E5F, 1, 32>>, <<\h16EA0, \h16EB8, 1, 27>>,
     <<\h1E900, \h1E921, 1, 34>>}

\* The code points of a sequence of code units
\* (String.prototype.codePointAt): a high surrogate and the low surrogate
\* after it are one code point.
Points(u) ==
    LET trails(i) ==
            /\ i > 1
            /\ u[i] \in \hDC00..\hDFFF
            /\ u[i - 1] \in \hD800..\hDBFF
        starts(n) == n >= 0
    IN  SelectSeq([i \in 1..Len(u) |->
                      IF trails(i) THEN -1
                      ELSE IF i < Len(u) /\ trails(i + 1)
                      THEN 65536 + 1024 * (u[i] - \hD800) + (u[i + 1] - \hDC00)
                      ELSE u[i]],
                  starts)

\* The condition Final_Sigma of the Unicode standard for the capital sigma
\* p[k]: a cased letter comes before it and none comes after it, where the
\* case-ignorable characters in between do not count.  near(j): p[j] is
\* cased, and every character between p[k] and p[j] is case-ignorable.
FinalSigma(p, k) ==
    LET near(j) ==
            /\ IF p[j] < 128 THEN p[j] \in 65..90 \/ p[j] \in 97..122
               ELSE \E r \in CasedRanges : r[1] <= p[j] /\ p[j] <= r[2]
            /\ \A m \in 1..Len(p) :
                  (k < m /\ m < j) \/ (j < m /\ m < k) =>
                      IF p[m] < 128 THEN p[m] \in {39, 46, 58, 94, 96}
                      ELSE \E r \in IgnorableRanges :
                               r[1] <= p[m] /\ p[m] <= r[2]
    IN  {side \in {-1, 1} :
            \E j \in 1..Len(p) : (j - k) * side > 0 /\ near(j)} = {-1}

\* The lower case of one code point out of context, as code points: that of
\* U+0130 (capital I with dot above) has two.
LowerPoint(n) ==
    LET run(r) == r[1] <= n /\ n <= r[2] /\ (n - r[1]) % r[3] = 0
        mine == {r \in LowerRuns : run(r)}
    IN  IF n < 128 THEN IF n \in 65..90 THEN <<n + 32>> ELSE <<n>>
        ELSE IF n = \h0130 THEN <<105, \h0307>>
        ELSE IF mine = {} THEN <<n>>
        ELSE <<n + (CHOOSE r \in mine : TRUE)[4]>>

\* The characters of one or two code points of the Basic Multilingual Plane,
\* or of one code point above U+FFFF, which is written as its two surrogates
\* (String.fromCodePoint).
CharsOf(q) ==
    [k \in 1..(IF q[1] >= 65536 THEN 2 ELSE Len(q)) |->
        Char(IF q[1] < 65536 THEN q[k]
             ELSE IF k = 1 THEN \hD800 + ((q[1] - 65536) \div 1024)
             ELSE \hDC00 + ((q[1] - 65536) % 1024))]

\* The lower case of one character: a text, since that of U+0130 has two
\* characters.  A surrogate on its own has no case.
LowerOf(c) == CharsOf(LowerPoint(CodeOf(c)))

\* The lower case of the code points p[a] to p[b], halving the range.
RECURSIVE LowerBetween(_, _, _)
LowerBetween(p, a, b) ==
    IF a > b THEN <<>>
    ELSE IF a < b
    THEN LowerBetween(p, a, (a + b) \div 2)
         \o LowerBetween(p, (a + b) \div 2 + 1, b)
    ELSE CharsOf(IF p[a] # \h03A3 THEN LowerPoint(p[a])
                 ELSE IF FinalSigma(p, a) THEN <<\h03C2>>
                 ELSE <<\h03C3>>)

\* String.prototype.toLowerCase: the Unicode default case conversion, code
\* point by code point, with the one rule that depends on the context.
ToLowerCase(s) ==
    LET p == Points([i \in 1..Len(s) |-> CodeOf(s[i])])
    IN  LowerBetween(p, 1, Len(p))

\* String.prototype.split("\n"): the pieces of s between its newlines, found
\* by cutting s at a newline near its middle.
RECURSIVE Split(_)
Split(s) ==
    LET nl == {i \in 1..Len(s) : s[i] = "\n"}
        later == {i \in nl : i >= Len(s) \div 2}
        cut == IF later # {} THEN CHOOSE i \in later : \A j \in later : i <= j
               ELSE CHOOSE i \in nl : \A j \in nl : j <= i
    IN  IF nl = {} THEN <<s>>
        ELSE Split(SubSeq(s, 1, cut - 1)) \o Split(SubSeq(s, cut + 1, Len(s)))

\* Array.prototype.join, joining the two halves of the array.
RECURSIVE Join(_, _)
Join(parts, sep) ==
    IF Len(parts) = 0 THEN <<>>
    ELSE IF Len(parts) = 1 THEN parts[1]
    ELSE LET h == Len(parts) \div 2
         IN  Join(SubSeq(parts, 1, h), sep) \o sep
             \o Join(SubSeq(parts, h + 1, Len(parts)), sep)

\* slice(0, n) of a string or an array
Slice(s, n) == SubSeq(s, 1, IF Len(s) < n THEN Len(s) ELSE n)

\* The white space and line terminators that trim removes: tab, line feed,
\* vertical tab, form feed, carriage return, space, no-break space, the
\* space separators of Unicode, the line and paragraph separators and the
\* byte order mark.
WhiteSpace ==
    {" ", "\n", "\t", "\r", "\f", "U+000B", "U+00A0", "U+1680", "U+2000",
     "U+2001", "U+2002", "U+2003", "U+2004", "U+2005", "U+2006", "U+2007",
     "U+2008", "U+2009", "U+200A", "U+2028", "U+2029", "U+202F", "U+205F",
     "U+3000", "U+FEFF"}

\* String.prototype.trim
Trim(s) ==
    IF \A i \in 1..Len(s) : s[i] \in WhiteSpace THEN <<>>
    ELSE LET a == CHOOSE i \in 1..Len(s) :
                      s[i] \notin WhiteSpace /\ \A j \in 1..(i - 1) : s[j] \in WhiteSpace
             b == CHOOSE i \in 1..Len(s) :
                      s[i] \notin WhiteSpace /\ \A j \in (i + 1)..Len(s) : s[j] \in WhiteSpace
         IN  SubSeq(s, a, b)

\* The position of the first occurrence of pat in s at or after position
\* from (positions count from 1), 0 when there is none.
TextIndexOf(s, pat, from) ==
    LET At(i) == SubSeq(s, i, i + Len(pat) - 1) = pat
        Places == from..(Len(s) - Len(pat) + 1)
    IN  IF \E i \in Places : At(i)
        THEN CHOOSE i \in Places : At(i) /\ \A j \in from..(i - 1) : ~At(j)
        ELSE 0

Digit == <<"0", "1", "2", "3", "4", "5", "6", "7", "8", "9">>

\* A number in a template literal: its decimal digits.
RECURSIVE NumberToText(_)
NumberToText(n) ==
    IF n < 10 THEN <<Digit[n + 1]>>
    ELSE NumberToText(n \div 10) \o <<Digit[(n % 10) + 1]>>

TextTypecheck == <<"t", "y", "p", "e", "c", "h", "e", "c", "k">>
TextTsc == <<"t", "s", "c">>
TextLint == <<"l", "i", "n", "t">>
TextEslint == <<"e", "s", "l", "i", "n", "t">>
TextBuild == <<"b", "u", "i", "l", "d">>
TextErrorTS == <<"e", "r", "r", "o", "r", " ", "T", "S">>
TextColonError == <<":", " ", "e", "r", "r", "o", "r", ":">>
TextError == <<"e", "r", "r", "o", "r">>
TextWarning == <<"w", "a", "r", "n", "i", "n", "g">>
TextFailed == <<"f", "a", "i", "l", "e", "d">>
TextNonZeroExit ==
    <<" ", "f", "a", "i", "l", "e", "d", " ", "w", "i", "t", "h", " ", "n", "o", "n", "-",
      "z", "e", "r", "o", " ", "e", "x", "i", "t", " ", "c", "o", "d", "e">>
TextCommandQuote == <<"C", "o", "m", "m", "a", "n", "d", " ", "\"">>
TextQuoteFailed == <<"\"", " ", "f", "a", "i", "l", "e", "d", ":", " ">>
TextColonSpace == <<":", " ">>
TextBlankLine == <<"\n", "\n">>
TextNoDiffBlock ==
    <<"N", "o", " ", "d", "i", "f", "f", " ", "b", "l", "o", "c", "k", " ", "f", "o",
      "u", "n", "d", " ", "i", "n", " ", "r", "e", "s", "p", "o", "n", "s", "e">>
TextPatchTooLarge ==
    <<"P", "a", "t", "c", "h", " ", "t", "o", "o", " ", "l", "a", "r", "g", "e", ":",
      " ">>
TextLinesMax ==
    <<" ", "l", "i", "n", "e", "s", " ", "(", "m", "a", "x", " ">>
TextFailedToParse ==
    <<"F", "a", "i", "l", "e", "d", " ", "t", "o", " ", "p", "a", "r", "s", "e", " ",
      "p", "a", "t", "c", "h">>
TextModelCallFailed ==
    <<"M", "o", "d", "e", "l", " ", "c", "a", "l", "l", " ", "f", "a", "i", "l", "e",
      "d", ":", " ">>
TextPatchFailed ==
    <<"P", "a", "t", "c", "h", " ", "f", "a", "i", "l", "e", "d", ":", " ">>
TextFailedToApply ==
    <<"F", "a", "i", "l", "e", "d", " ", "t", "o", " ", "a", "p", "p", "l", "y", " ",
      "p", "a", "t", "c", "h">>
TextVerificationFailed ==
    <<"V", "e", "r", "i", "f", "i", "c", "a", "t", "i", "o", "n", " ", "f", "a", "i",
      "l", "e", "d">>

FenceOpen == <<BackQuote, BackQuote, BackQuote, "d", "i", "f", "f", "\n">>
FenceClose == <<BackQuote, BackQuote, BackQuote>>

\* -------------------------------------------------------------- parsePatch

\* A line of a diff is the sequence of its characters.
StartsWith(l, prefix) ==
    Len(l) >= Len(prefix) /\ SubSeq(l, 1, Len(prefix)) = prefix

\* The filters without the exclusion of the +++ and --- header lines.
IsChangeLine_headers(l) == StartsWith(l, <<"+">>) \/ StartsWith(l, <<"-">>)

IsChangeLine(l) ==
    /\ StartsWith(l, <<"+">>) \/ StartsWith(l, <<"-">>)
    /\ ~StartsWith(l, <<"+", "+", "+">>)
    /\ ~StartsWith(l, <<"-", "-", "-">>)

\* A model response is a text.  A PatchResult is a record that has the
\* fields the code sets and no others.  The regular expression matches from
\* the first "```diff\n" to the first "```" after it.
\* The rejection of a response without a diff block, with a line count.
NoDiffBlock_counted ==
    [success |-> FALSE, error |-> TextNoDiffBlock, linesChanged |-> 0]

\* The rejection of a response without a diff block.
NoDiffBlock == [success |-> FALSE, error |-> TextNoDiffBlock]

parsePatch(response) ==
    LET open == TextIndexOf(response, FenceOpen, 1)
        close == IF open = 0 THEN 0
                 ELSE TextIndexOf(response, FenceClose, open + Len(FenceOpen))
    IN  IF open = 0 \/ close = 0
        THEN NoDiffBlock
        ELSE LET patch == Trim(SubSeq(response, open + Len(FenceOpen), close - 1))
                 lines == Split(patch)
                 changeLines == SelectSeq(lines, IsChangeLine)
             IN  IF Len(changeLines) > MAX_PATCH_LINES
                 THEN [success |-> FALSE,
                       error |-> TextPatchTooLarge \o NumberToText(Len(changeLines))
                                 \o TextLinesMax \o NumberToText(MAX_PATCH_LINES) \o <<")">>,
                       linesChanged |-> Len(changeLines)]
                 ELSE [success |-> TRUE, patch |-> patch,
                       linesChanged |-> Len(changeLines)]

\* `!patchResult.patch`: undefined or the empty string.
NoPatch(pr) == "patch" \notin DOMAIN pr \/ pr.patch = <<>>

\* ----------------------------------------------------- verifier: parseErrors

IsTsError(line) == Includes(line, TextErrorTS) \/ Includes(line, TextColonError)
IsLintError(line) == Includes(line, TextError) \/ Includes(line, TextWarning)
IsBuildError(line) ==
    \/ Includes(ToLowerCase(line), TextError)
    \/ Includes(ToLowerCase(line), TextFailed)

parseErrors(output, command) ==
    LET lines == Split(output)
        errs ==
            IF Includes(command, TextTypecheck) \/ Includes(command, TextTsc)
            THEN Slice(SelectSeq(lines, IsTsError), 10)
            ELSE IF Includes(command, TextLint) \/ Includes(command, TextEslint)
            THEN Slice(SelectSeq(lines, IsLintError), 10)
            ELSE IF Includes(command, TextBuild)
            THEN Slice(SelectSeq(lines, IsBuildError), 10)
            ELSE IF Len(Trim(output)) > 0
            THEN <<command \o TextColonSpace \o Slice(output, 500)>>
            ELSE <<>>
    IN  IF Len(errs) > 0 THEN errs ELSE <<command \o TextNonZeroExit>>

\* -------------------------------------------------- verifier: runVerification

\* One command of a verification run, with what the spawned process does:
\* whether Bun.spawn succeeds (and the message it throws if not), the exit
\* code `await proc.exited` yields (not 0 for a process the timer killed),
\* and the text on its stdout and stderr.
LogEntry(run) == <<"[">> \o run.command \o <<"]", "\n">> \o run.stdout \o run.stderr

\* The body of the for loop, for one command: the arrays errors and logs after it.
VerifyStep(acc, run) ==
    IF ~run.spawns
    THEN [errors |-> Append(acc.errors,
                        TextCommandQuote \o run.command \o TextQuoteFailed \o run.message),
          logs |-> acc.logs]
    ELSE [errors |-> IF run.exitCode # 0
                     THEN acc.errors \o
                          parseErrors(IF Len(run.stderr) > 0 THEN run.stderr
                                      ELSE run.stdout, run.command)
                     ELSE acc.errors,
          logs |-> Append(acc.logs, LogEntry(run))]

RECURSIVE VerifyLoop(_, _)

\* The for loop over the commands.
VerifyLoop(acc, runs) ==
    IF Len(runs) = 0 THEN acc
    ELSE VerifyLoop(VerifyStep(acc, Head(runs)), Tail(runs))

\* A VerifyResult is a record with the fields that are not undefined.
runVerification(runs) ==
    LET acc == VerifyLoop([errors |-> <<>>, logs |-> <<>>], runs)
    IN  IF Len(acc.errors) = 0
        THEN [success |-> TRUE, logs |-> Join(acc.logs, TextBlankLine)]
        ELSE [success |-> FALSE, errors |-> acc.errors,
              logs |-> Join(acc.logs, TextBlankLine)]

\* ---------------------------------------------- verifier: checkWorkspaceHealth

\* A JSON value, by its type and what the code looks at: the length of a
\* string, the number of keys of an object.  JavaScript's truthiness of it:
Truthy(v) ==
    IF v.type \in {"undefined", "null"} THEN FALSE
    ELSE IF v.type = "string" THEN v.length > 0
    ELSE IF v.type = "number" THEN v.value # 0
    ELSE TRUE

\* Reading a property of the value throws a TypeError.
PropertyThrows(v) == v.type \in {"undefined", "null"}

Undefined == [type |-> "undefined"]
Null == [type |-> "null"]

\* `if (!pkg.scripts)`
HasNoScripts(pkg) == ~Truthy(pkg.scripts)

\* The workspace's package.json: whether the file exists, whether its text
\* parses as JSON, and the value pkg it parses to (the value of pkg.scripts
\* for an object, `undefined` for a value of another type).
checkWorkspaceHealth(manifest) ==
    IF ~manifest.exists
    THEN [valid |-> FALSE, reason |-> "No package.json found"]
    ELSE IF ~manifest.parses \/ PropertyThrows(manifest.pkg)
    THEN [valid |-> FALSE, reason |-> "Invalid package.json"]
    ELSE IF HasNoScripts(manifest.pkg)
    THEN [valid |-> FALSE, reason |-> "No scripts defined in package.json"]
    ELSE [valid |-> TRUE]

CmdTypecheck ==
    <<"b", "u", "n", " ", "r", "u", "n", " ", "t", "y", "p", "e", "c", "h", "e", "c", "k">>
CmdLint == <<"b", "u", "n", " ", "r", "u", "n", " ", "l", "i", "n", "t">>
CmdBuild == <<"b", "u", "n", " ", "r", "u", "n", " ", "b", "u", "i", "l", "d">>
CmdOther == <<"m", "a", "k", "e", " ", "t", "e", "s", "t">>
DEFAULT_COMMANDS == <<CmdTypecheck, CmdLint, CmdBuild>>

OutEmpty == <<>>
OutOk == <<"o", "k", "\n">>
OutTsError ==
    <<"a", ".", "t", "s", "(", "1", ",", "2", ")", ":", " ", "e", "r", "r", "o", "r", " ",
      "T", "S", "2", ":", " ", "x", "\n", "F", "o", "u", "n", "d", " ", "1", " ", "e", "r",
      "r", "o", "r", ".", "\n">>
OutLintWarning ==
    <<"a", ".", "t", "s", "\n", " ", "1", ":", "1", " ", "w", "a", "r", "n", "i", "n", "g",
      " ", "n", "o", "-", "v", "a", "r", "\n">>
OutBuildFailed == <<"B", "u", "i", "l", "d", " ", "F", "A", "I", "L", "E", "D", "\n">>
OutOpaque == <<"b", "o", "o", "m", "\n">>
OutBlank == <<"\f", "U+00A0", "\n">>
OutStopped == <<"s", "t", "o", "p", "p", "e", "d", "\n">>
OutENOENT == <<"E", "N", "O", "E", "N", "T">>

\* What a spawned command can do: whether Bun.spawn succeeds, whether the
\* timer fires and sends SIGTERM (proc.kill()), whether the process ends, and
\* the exit code and output it ends with.  The code never looks at whether
\* the timer fired.  A process that is killed by the signal exits with code
\* 143; one that handles the signal can exit with 0; one that ignores it and
\* does not end by itself leaves `await proc.exited` pending for ever.
Behaviours ==
    {[spawns |-> TRUE, exits |-> TRUE, exitCode |-> 0, stdout |-> OutOk,
      stderr |-> OutEmpty, message |-> OutEmpty, timedOut |-> FALSE],
     [spawns |-> TRUE, exits |-> TRUE, exitCode |-> 1, stdout |-> OutOk,
      stderr |-> OutTsError, message |-> OutEmpty, timedOut |-> FALSE],
     [spawns |-> TRUE, exits |-> TRUE, exitCode |-> 1, stdout |-> OutLintWarning,
      stderr |-> OutEmpty, message |-> OutEmpty, timedOut |-> FALSE],
     [spawns |-> TRUE, exits |-> TRUE, exitCode |-> 1, stdout |-> OutEmpty,
      stderr |-> OutBuildFailed, message |-> OutEmpty, timedOut |-> FALSE],
     [spawns |-> TRUE, exits |-> TRUE, exitCode |-> 2, stdout |-> OutOpaque,
      stderr |-> OutEmpty, message |-> OutEmpty, timedOut |-> FALSE],
     [spawns |-> TRUE, exits |-> TRUE, exitCode |-> 143, stdout |-> OutEmpty,
      stderr |-> OutEmpty, message |-> OutEmpty, timedOut |-> TRUE],
     [spawns |-> TRUE, exits |-> TRUE, exitCode |-> 0, stdout |-> OutStopped,
      stderr |-> OutEmpty, message |-> OutEmpty, timedOut |-> TRUE],
     [spawns |-> TRUE, exits |-> FALSE, exitCode |-> 0, stdout |-> OutEmpty,
      stderr |-> OutEmpty, message |-> OutEmpty, timedOut |-> TRUE],
     [spawns |-> FALSE, exits |-> FALSE, exitCode |-> 0, stdout |-> OutEmpty,
      stderr |-> OutEmpty, message |-> OutENOENT, timedOut |-> FALSE]}

RunOf(command, b) ==
    [command |-> command, spawns |-> b.spawns, exits |-> b.exits,
     exitCode |-> b.exitCode, stdout |-> b.stdout, stderr |-> b.stderr,
     message |-> b.message, timedOut |-> b.timedOut]

\* runVerification never returns: a command of the list was started and does
\* not end.
Hangs(runs) == \E i \in 1..Len(runs) : runs[i].spawns /\ ~runs[i].exits

\* ------------------------------------------------------- inputs of a run

TaskInputs ==
    {[description |-> 50, filesOwned |-> 2],
     [description |-> 1200, filesOwned |-> 2]}

HeaderOld == <<"-", "-", "-", " ", "a">>
HeaderNew == <<"+", "+", "+", " ", "b">>
Hunk == <<"@", "@">>
Added == <<"+", "x">>
Removed == <<"-", "y">>
Context == <<" ", "z">>
TwoPlus == <<"+", "+", "i">>
BarePlus == <<"+">>

\* A response that holds the lines of a diff in a fenced block.
Fenced(lines) ==
    <<"O", "K", "\n">> \o FenceOpen \o Join(lines, <<"\n">>) \o <<"\n">> \o FenceClose

NoBlock == <<"s", "o", "r", "r", "y">>
EmptyBlock == FenceOpen \o FenceClose
SmallDiff == Fenced(<<HeaderOld, HeaderNew, Hunk, Context, Removed, Added>>)
HugeDiff == Fenced(<<HeaderOld, HeaderNew, Hunk>>
                   \o [i \in 1..(MAX_PATCH_LINES + 1) |-> Added])

Responses == {NoBlock, EmptyBlock, SmallDiff, HugeDiff}

\* parsePatch of each response of the driver's model calls.
PatchResultOf == [resp \in Responses |-> parsePatch(resp)]

\* The messages of the errors a model call or applyPatch fails with.
MsgTimeout == <<"t", "i", "m", "e", "o", "u", "t">>
MsgHunkFailed == <<"H", "u", "n", "k", " ", "F", "A", "I", "L", "E", "D">>

\* The verification runs of the driver: the default commands, all passing, or
\* with a failing typecheck, or with a failing build.
DriverRuns ==
    LET Ok == CHOOSE b \in Behaviours : b.spawns /\ b.exitCode = 0 /\ ~b.timedOut
        Ts == CHOOSE b \in Behaviours : b.stderr = OutTsError
        Bf == CHOOSE b \in Behaviours : b.stderr = OutBuildFailed
    IN  {<<RunOf(CmdTypecheck, Ok), RunOf(CmdLint, Ok), RunOf(CmdBuild, Ok)>>,
         <<RunOf(CmdTypecheck, Ts), RunOf(CmdLint, Ok), RunOf(CmdBuild, Ok)>>,
         <<RunOf(CmdTypecheck, Ok), RunOf(CmdLint, Ok), RunOf(CmdBuild, Bf)>>}

DriverVerifyResults == {runVerification(runs) : runs \in DriverRuns}

\* `errors = [...]` with the assignment appending to the list.
recordErrors_append(old, new) == old \o new

\* `errors = [...]`: the assignment replaces the list.
recordErrors(old, new) == new

\* buildPrompt: the prompt's task description and files, and the bullets of
\* its "Previous errors to fix" section, one for each error it is given.
buildPrompt(tk, errs) ==
    [description |-> tk.description,
     filesOwned |-> tk.filesOwned,
     errors |-> [i \in 1..Len(errs) |-> <<"-", " ">> \o errs[i] \o <<"\n">>]]

\* applyPatch: the result for the exit code and the stderr text of `patch`.
applyPatch(exitCode, stderr) ==
    IF exitCode # 0 THEN [success |-> FALSE, error |-> TextPatchFailed \o stderr]
    ELSE [success |-> TRUE]

\* `applyResult.error || "Failed to apply patch"`
applyError(ar) == IF "error" \in DOMAIN ar THEN ar.error ELSE TextFailedToApply

\* `patchResult.error || "Failed to parse patch"`
parseError(pr) == IF "error" \in DOMAIN pr THEN pr.error ELSE TextFailedToParse

\* `verifyResult.errors || ["Verification failed"]`, always the default.
verifyErrors_default(vr) == <<TextVerificationFailed>>

\* `verifyResult.errors || ["Verification failed"]`
verifyErrors(vr) ==
    IF "errors" \in DOMAIN vr THEN vr.errors ELSE <<TextVerificationFailed>>
\* ------------------------------------------------ runOrchestrator (index)

Init ==
    /\ permits = CONCURRENCY_LIMITS
    /\ queue = [t \in Tier |-> <<>>]
    /\ arrivals = [t \in Tier |-> <<>>]
    /\ sem = [p \in {Driver} \cup Peers |-> None]
    /\ semaphore = [p \in {Driver} \cup Peers |-> None]
    /\ outcome = {}
    /\ gates = Tier
    /\ via = [p \in {Driver} \cup Peers |-> None]
    /\ pc = [p \in {Driver} \cup Peers |-> IF p = Driver THEN "start" ELSE "idle"]
    /\ task = NoTask
    /\ errors = <<>>
    /\ patchResult = NoPatchResult
    /\ prompt = <<>>
    /\ iters = 0
    /\ nEscalations = 0
    /\ failures = {}
    /\ recorded = NoFailure
    /\ log = <<>>
    /\ steps = <<>>
    /\ modelResponse = <<>>
    /\ arg = None
    /\ res = NoResult

\* An event of the task logger, by level.
info(event) == <<"info", event>>
warn(event) == <<"warn", event>>
error(event) == <<"error", event>>

\* runOrchestrator up to the loop: createTask, task_created, errors = [].
StartWith(input) ==
    /\ pc[Driver] = "start"
    /\ task' = createTask(input, 1)
    /\ errors' = <<>>
    /\ log' = <<info("task_created")>>
    /\ pc' = [pc EXCEPT ![Driver] = "loop"]
    /\ UNCHANGED <<patchResult, prompt, iters, nEscalations, failures, recorded, steps,
                   modelResponse>>
    /\ UNCHANGED fnVars
    /\ UNCHANGED gateVars

Start == \E input \in TaskInputs : StartWith(input)

\* The loop condition fails: task_abort is logged, { success: false } returned.
LoopAbort ==
    /\ pc[Driver] = "loop"
    /\ shouldAbort(task)
    /\ pc' = [pc EXCEPT ![Driver] = "aborted"]
    /\ log' = Append(log, error("task_abort"))
    /\ UNCHANGED <<task, errors, patchResult, prompt, iters, nEscalations, failures,
                   recorded, steps, modelResponse>>
    /\ UNCHANGED fnVars
    /\ UNCHANGED gateVars

\* The loop condition holds: incrementAttempt, then await readFiles.
LoopIterate ==
    /\ pc[Driver] = "loop"
    /\ ~shouldAbort(task)
    /\ task' = incrementAttempt(task)
    /\ iters' = iters + 1
    /\ log' = <<>>
    /\ steps' = <<"incrementAttempt">>
    /\ pc' = [pc EXCEPT ![Driver] = "readFiles"]
    /\ UNCHANGED <<errors, patchResult, prompt, nEscalations, failures, recorded,
                   modelResponse>>
    /\ UNCHANGED fnVars
    /\ UNCHANGED gateVars

\* readFiles returned: buildPrompt with the errors, callModel up to acquire().
ReadFilesDone ==
    /\ pc[Driver] = "readFiles"
    /\ prompt' = buildPrompt(task, errors)
    /\ log' = Append(log, info("model_call_start"))
    /\ steps' = Append(steps, "readFiles")
    /\ withPermitEnter(Driver, task.tier)
    /\ pc' = [pc EXCEPT ![Driver] = "acquire"]
    /\ UNCHANGED <<task, errors, patchResult, iters, nEscalations, failures, recorded,
                   modelResponse>>
    /\ UNCHANGED fnVars

\* The end of a failed iteration that evaluates shouldEscalate, after the
\* events evs were logged.
EscalateIfDue(evs) ==
    IF shouldEscalate(task)
    THEN /\ task' = escalateTask(task)
         /\ nEscalations' = nEscalations + 1
         /\ log' = log \o evs \o <<info("escalation")>>
    ELSE /\ task' = task
         /\ nEscalations' = nEscalations
         /\ log' = log \o evs

\* fn(): `await client.chat.completions.create` resolves; model_call_complete
\* is logged and fn() returns the response.
CreateResolves ==
    /\ pc[Driver] = "create"
    /\ \E resp \in Responses : modelResponse' = <<resp>>
    /\ log' = Append(log, info("model_call_complete"))
    /\ pc' = [pc EXCEPT ![Driver] = "fnReturned"]
    /\ UNCHANGED <<task, errors, patchResult, prompt, iters, nEscalations, failures,
                   recorded, steps>>
    /\ UNCHANGED fnVars
    /\ UNCHANGED gateVars

\* fn(): `await client.chat.completions.create` rejects, and so does fn().
CreateRejects ==
    /\ pc[Driver] = "create"
    /\ pc' = [pc EXCEPT ![Driver] = "fnThrew"]
    /\ UNCHANGED driverVars
    /\ UNCHANGED fnVars
    /\ UNCHANGED gateVars

\* withPermit: the continuation of `return await fn()` after fn() returned;
\* the finally block releases and the promise of callModel resolves.
FinallyAfterReturn ==
    /\ pc[Driver] = "fnReturned"
    /\ withPermitReturn(Driver)
    /\ pc' = [pc EXCEPT ![Driver] = "callModelReturned"]
    /\ UNCHANGED driverVars
    /\ UNCHANGED fnVars

\* withPermit: the continuation of `return await fn()` after fn() threw; the
\* finally block releases and the promise of callModel rejects.
FinallyAfterThrow ==
    /\ pc[Driver] = "fnThrew"
    /\ withPermitThrow(Driver)
    /\ pc' = [pc EXCEPT ![Driver] = "callModelThrew"]
    /\ UNCHANGED driverVars
    /\ UNCHANGED fnVars

\* The continuation of `await callModel` after it threw: the catch block
\* records the error and continues.
ModelCallFails ==
    /\ pc[Driver] = "callModelThrew"
    /\ errors' = recordErrors(errors, <<TextModelCallFailed \o MsgTimeout>>)
    /\ recorded' = [recorded EXCEPT !.kind = "model",
                                     !.errors = <<TextModelCallFailed \o MsgTimeout>>]
    /\ failures' = failures \cup {"model"}
    /\ log' = Append(log, error("model_call_complete"))
    /\ steps' = Append(steps, "callModel threw")
    /\ prompt' = <<>>
    /\ pc' = [pc EXCEPT ![Driver] = "loop"]
    /\ UNCHANGED <<task, patchResult, iters, nEscalations, modelResponse>>
    /\ UNCHANGED fnVars
    /\ UNCHANGED gateVars

\* The continuation of `await callModel` after it returned a response:
\* parsePatch, then reject or applyPatch.
ModelCallReturns ==
    /\ pc[Driver] = "callModelReturned"
    /\ LET pr == PatchResultOf[modelResponse[1]]
       IN  IF ~pr.success \/ NoPatch(pr)
           THEN /\ errors' = recordErrors(errors, <<parseError(pr)>>)
                /\ recorded' = [recorded EXCEPT !.kind = "parse",
                                                 !.errors = <<parseError(pr)>>]
                /\ failures' = failures \cup {"parse"}
                /\ EscalateIfDue(<<warn("patch_rejected")>>)
                /\ steps' = steps \o <<"callModel returned", "parsePatch rejected">>
                /\ patchResult' = NoPatchResult
                /\ pc' = [pc EXCEPT ![Driver] = "loop"]
           ELSE /\ patchResult' = pr
                /\ log' = Append(log, info("patch_applied"))
                /\ steps' = steps \o <<"callModel returned", "parsePatch accepted">>
                /\ pc' = [pc EXCEPT ![Driver] = "applyPatch"]
                /\ UNCHANGED <<task, errors, nEscalations, failures, recorded>>
    /\ modelResponse' = <<>>
    /\ prompt' = <<>>
    /\ UNCHANGED iters
    /\ UNCHANGED fnVars
    /\ UNCHANGED gateVars

\* A driver that runs verification after a failed apply.
ApplyFails_verifies ==
    /\ pc[Driver] = "applyPatch"
    /\ ~applyPatch(1, MsgHunkFailed).success
    /\ log' = Append(log, info("verification_start"))
    /\ steps' = Append(steps, "applyPatch failed")
    /\ pc' = [pc EXCEPT ![Driver] = "verify"]
    /\ UNCHANGED <<task, errors, patchResult, prompt, iters, nEscalations,
                   failures, recorded, modelResponse>>
    /\ UNCHANGED fnVars
    /\ UNCHANGED gateVars

\* applyPatch returned { success: false }.
ApplyFails ==
    /\ pc[Driver] = "applyPatch"
    /\ LET applyResult == applyPatch(1, MsgHunkFailed)
       IN  /\ ~applyResult.success
           /\ errors' = recordErrors(errors, <<applyError(applyResult)>>)
           /\ recorded' = [recorded EXCEPT !.kind = "apply",
                                            !.errors = <<applyError(applyResult)>>]
    /\ failures' = failures \cup {"apply"}
    /\ EscalateIfDue(<<warn("patch_rejected")>>)
    /\ steps' = Append(steps, "applyPatch failed")
    /\ patchResult' = NoPatchResult
    /\ pc' = [pc EXCEPT ![Driver] = "loop"]
    /\ UNCHANGED <<prompt, iters, modelResponse>>
    /\ UNCHANGED fnVars
    /\ UNCHANGED gateVars

\* applyPatch returned { success: true }: verification_start, runVerification.
ApplySucceeds ==
    /\ pc[Driver] = "applyPatch"
    /\ applyPatch(0, <<>>).success
    /\ log' = Append(log, info("verification_start"))
    /\ steps' = Append(steps, "applyPatch succeeded")
    /\ pc' = [pc EXCEPT ![Driver] = "verify"]
    /\ UNCHANGED <<task, errors, patchResult, prompt, iters, nEscalations, failures,
                   recorded, modelResponse>>
    /\ UNCHANGED fnVars
    /\ UNCHANGED gateVars

\* Bun.spawn throws inside applyPatch, the `patch` program not being there to
\* start: neither applyPatch nor runOrchestrator catches it, so the promise of
\* runOrchestrator is rejected after patch_applied, with no task_abort.
ApplyThrows ==
    /\ pc[Driver] = "applyPatch"
    /\ steps' = Append(steps, "applyPatch threw")
    /\ pc' = [pc EXCEPT ![Driver] = "crashed"]
    /\ UNCHANGED <<task, errors, patchResult, prompt, iters, nEscalations, failures,
                   recorded, log, modelResponse>>
    /\ UNCHANGED fnVars
    /\ UNCHANGED gateVars

\* runVerification returned success: task_complete, { success: true } returned.
VerifyPasses ==
    /\ pc[Driver] = "verify"
    /\ \E vr \in DriverVerifyResults : vr.success
    /\ log' = log \o <<info("verification_pass"), info("task_complete")>>
    /\ steps' = Append(steps, "runVerification succeeded")
    /\ pc' = [pc EXCEPT ![Driver] = "succeeded"]
    /\ UNCHANGED <<task, errors, patchResult, prompt, iters, nEscalations, failures,
                   recorded, modelResponse>>
    /\ UNCHANGED fnVars
    /\ UNCHANGED gateVars

\* runVerification returned a failure with its error list.
VerifyFails ==
    /\ pc[Driver] = "verify"
    /\ \E vr \in DriverVerifyResults :
        /\ ~vr.success
        /\ errors' = recordErrors(errors, verifyErrors(vr))
        /\ recorded' = [kind |-> "verify", errors |-> vr.errors, verify |-> vr.errors]
    /\ failures' = failures \cup {"verify"}
    /\ EscalateIfDue(<<warn("verification_fail")>>)
    /\ steps' = Append(steps, "runVerification failed")
    /\ patchResult' = NoPatchResult
    /\ pc' = [pc EXCEPT ![Driver] = "loop"]
    /\ UNCHANGED <<prompt, iters, modelResponse>>
    /\ UNCHANGED fnVars
    /\ UNCHANGED gateVars

DriverNext ==
    \/ Start
    \/ LoopAbort
    \/ LoopIterate
    \/ ReadFilesDone
    \/ AcquireResume(Driver)
    \/ CreateResolves
    \/ CreateRejects
    \/ FinallyAfterReturn
    \/ FinallyAfterThrow
    \/ ModelCallFails
    \/ ModelCallReturns
    \/ ApplyFails
    \/ ApplySucceeds
    \/ ApplyThrows
    \/ VerifyPasses
    \/ VerifyFails

PeerNext ==
    \E p \in Peers :
        \/ PeerCall(p)
        \/ AcquireResume(p)
        \/ PeerReturns(p)
        \/ PeerThrows(p)

Next == DriverNext \/ PeerNext

Spec == Init /\ [][Next]_vars

\* The event loop runs every continuation that is ready, and every model
\* call, patch application and verification command returns: the driver's
\* next step is taken, and a peer that was admitted or holds a slot goes on.
LiveSpec ==
    /\ Spec
    /\ WF_vars(DriverNext)
    /\ \A p \in Peers : WF_vars(AcquireResume(p) \/ PeerReturns(p) \/ PeerThrows(p))

\* ------------------------------------------------------------- GateSpec

GateNext ==
    \E p \in Ctxs :
        \/ PeerCall(p)
        \/ AcquireResume(p)
        \/ PeerReturns(p)
        \/ PeerThrows(p)

GateSpec == GateInit /\ [][GateNext]_vars

\* Every context the gate admitted goes on: the continuation of its
\* acquire() runs, and its fn() ends, so that the finally block releases.
\* Nothing obliges a context to call withPermit.
GateLiveSpec ==
    /\ GateSpec
    /\ \A p \in Ctxs : WF_vars(AcquireResume(p) \/ PeerReturns(p) \/ PeerThrows(p))

\* --------------------------------------------------------------- FnSpec

\* The functions of the policy, the parser and the verifier, each applied to
\* an argument drawn at the start.

\* Tasks at every tier with every combination of counters.
FnTasks ==
    {[id |-> 1, description |-> 50, filesOwned |-> 2, tier |-> t, attempt |-> a,
      maxAttempts |-> 5, tierAttempts |-> ta] :
        t \in Tier, a \in 0..MaxAttempt, ta \in [Tier -> 0..MaxTierAttempts]}

\* Task inputs around the two thresholds.
FnTaskInputs ==
    {[description |-> d, filesOwned |-> f] :
        d \in {0, 50, 999, 1000, 1001, 1200}, f \in 0..MaxFiles}

\* The lines of the diffs, and those of them that add or remove a line.
DiffLines == {HeaderOld, HeaderNew, Hunk, Context, Added, Removed, TwoPlus, BarePlus}
ChangeLines == {Added, Removed, TwoPlus, BarePlus}

\* Short diffs of every shape, and diffs around the limit of changed lines.
FnDiffs ==
    UNION {[1..n -> DiffLines] : n \in 0..MaxDiffLines}
    \cup {prefix \o <<Removed>> \o [i \in 1..(n - 1) |-> Added] :
            prefix \in {<<>>, <<HeaderOld, HeaderNew, Hunk>>},
            n \in (MAX_PATCH_LINES - 1)..(MAX_PATCH_LINES + 2)}

\* Responses without a diff block: plain text, a fence that is not a diff
\* fence, a diff fence that is never closed, a diff fence without its newline.
FnNoBlocks ==
    {NoBlock,
     FenceClose \o <<"\n">> \o Added \o <<"\n">> \o FenceClose,
     FenceOpen \o Added \o <<"\n">>,
     FenceClose \o <<"d", "i", "f", "f", " ">> \o Added \o <<"\n">> \o FenceClose}

\* The commands of a list, each with what it does when it is run.
FnRuns ==
    UNION {[1..n -> {RunOf(c, b) : c \in {CmdTypecheck, CmdLint, CmdBuild, CmdOther},
                                   b \in Behaviours}] : n \in 0..MaxCommands}

\* The outputs and commands parseErrors is applied to.
FnOutputs ==
    {OutEmpty, OutBlank, OutOk, OutTsError, OutLintWarning, OutBuildFailed, OutOpaque}
FnCommands == {CmdTypecheck, CmdLint, CmdBuild, CmdOther}

\* The values pkg.scripts can have.
ScriptsValues ==
    {Undefined, Null, [type |-> "string", length |-> 0], [type |-> "number", value |-> 0]}
    \cup {[type |-> "object", keys |-> n] : n \in 0..MaxScripts}

\* The package.json files of a workspace.
Manifests ==
    {[exists |-> FALSE, parses |-> FALSE, pkg |-> Undefined],
     [exists |-> TRUE, parses |-> FALSE, pkg |-> Undefined],
     [exists |-> TRUE, parses |-> TRUE, pkg |-> Null],
     [exists |-> TRUE, parses |-> TRUE, pkg |-> [type |-> "number", value |-> 1,
                                                 scripts |-> Undefined]]}
    \cup {[exists |-> TRUE, parses |-> TRUE, pkg |-> [type |-> "object", scripts |-> v]] :
            v \in ScriptsValues}

FnArgs ==
    {[kind |-> "task", task |-> tk] : tk \in FnTasks}
    \cup {[kind |-> "input", input |-> input] : input \in FnTaskInputs}
    \cup {[kind |-> "response", response |-> Fenced(lines), block |-> TRUE, lines |-> lines] :
            lines \in FnDiffs}
    \cup {[kind |-> "response", response |-> r, block |-> FALSE, lines |-> <<>>] :
            r \in FnNoBlocks}
    \cup {[kind |-> "runs", runs |-> runs] : runs \in FnRuns}
    \cup {[kind |-> "manifest", manifest |-> m] : m \in Manifests}
    \cup {[kind |-> "output", output |-> o, command |-> c] :
            o \in FnOutputs, c \in FnCommands}

FnInit ==
    /\ permits = CONCURRENCY_LIMITS
    /\ queue = [t \in Tier |-> <<>>]
    /\ arrivals = [t \in Tier |-> <<>>]
    /\ sem = [p \in {Driver} |-> None]
    /\ semaphore = [p \in {Driver} |-> None]
    /\ outcome = {}
    /\ gates = Tier
    /\ via = [p \in {Driver} |-> None]
    /\ pc = [p \in {Driver} |-> "start"]
    /\ task = NoTask
    /\ errors = <<>>
    /\ patchResult = NoPatchResult
    /\ prompt = <<>>
    /\ iters = 0
    /\ nEscalations = 0
    /\ failures = {}
    /\ recorded = NoFailure
    /\ log = <<>>
    /\ steps = <<>>
    /\ modelResponse = <<>>
    /\ arg \in FnArgs
    /\ res = NoResult

\* The function fn is applied to the argument and yields value.
Returns(fn, value) ==
    /\ res = NoResult
    /\ res' = [fn |-> fn, value |-> value]
    /\ UNCHANGED <<arg, pc, gateVars, driverVars>>

\* The function fn is applied to the argument and throws.
Throws(fn) ==
    /\ res = NoResult
    /\ res' = [fn |-> fn, threw |-> TRUE]
    /\ UNCHANGED <<arg, pc, gateVars, driverVars>>

CallShouldEscalate ==
    /\ arg.kind = "task"
    /\ Returns("shouldEscalate", shouldEscalate(arg.task))

CallShouldAbort ==
    /\ arg.kind = "task"
    /\ Returns("shouldAbort", shouldAbort(arg.task))

CallEscalateTask ==
    /\ arg.kind = "task"
    /\ IF escalateThrows(arg.task)
       THEN Throws("escalateTask")
       ELSE Returns("escalateTask", escalateTask(arg.task))

CallCreateTask ==
    /\ arg.kind = "input"
    /\ Returns("createTask", createTask(arg.input, 1))

CallParsePatch ==
    /\ arg.kind = "response"
    /\ Returns("parsePatch", parsePatch(arg.response))

CallRunVerification ==
    /\ arg.kind = "runs"
    /\ ~Hangs(arg.runs)
    /\ Returns("runVerification", runVerification(arg.runs))

CallCheckWorkspaceHealth ==
    /\ arg.kind = "manifest"
    /\ Returns("checkWorkspaceHealth", checkWorkspaceHealth(arg.manifest))

CallParseErrors ==
    /\ arg.kind = "output"
    /\ Returns("parseErrors", parseErrors(arg.output, arg.command))

FnNext ==
    \/ CallShouldEscalate
    \/ CallShouldAbort
    \/ CallEscalateTask
    \/ CallCreateTask
    \/ CallParsePatch
    \/ CallRunVerification
    \/ CallCheckWorkspaceHealth
    \/ CallParseErrors

FnSpec == FnInit /\ [][FnNext]_vars

\* -------------------------------------------------------------- MainSpec

\* main: the workspace check and the reading of the task input, then
\* runOrchestrator, then the exit of the process.  The argument holds the
\* workspace's manifest and the text of the task input, the result the exit
\* code.

\* The values of the description and of the filesOwned of a task input.
Descriptions ==
    {Undefined, Null, [type |-> "number", value |-> 42],
     [type |-> "string", length |-> 50], [type |-> "string", length |-> 1200],
     [type |-> "array", length |-> 1]}
FileLists ==
    {Undefined, Null, [type |-> "array", length |-> 2],
     [type |-> "number", value |-> 5], [type |-> "string", length |-> 2]}

\* The task input: whether its text is read and parses as JSON, and the value.
MainInputs ==
    {[parses |-> FALSE, value |-> Undefined], [parses |-> TRUE, value |-> Null]}
    \cup {[parses |-> TRUE,
           value |-> [type |-> "object", description |-> d, filesOwned |-> f]] :
            d \in Descriptions, f \in FileLists}

\* `x.length > n` is false when x.length is undefined, as for a length of 0.
LengthOf(x) == IF x.type \in {"string", "array"} THEN x.length ELSE 0

\* createTask throws: selectInitialTier reads `.length` of the input's
\* filesOwned and description.
createTaskThrows(v) ==
    \/ PropertyThrows(v)
    \/ PropertyThrows(v.filesOwned)
    \/ PropertyThrows(v.description)

\* A parsed task input as createTask sees it.
InputOf(v) ==
    [description |-> LengthOf(v.description), filesOwned |-> LengthOf(v.filesOwned)]

\* `task.description.slice(0, 100)` of the task_created event throws: only
\* strings and arrays have a slice method.
TaskCreatedThrows(v) == v.description.type \notin {"string", "array"}

\* readFiles throws: `for (const path of paths)` on a value that is not
\* iterable.
readFilesThrows(v) == v.filesOwned.type \notin {"string", "array"}

\* buildPrompt throws: `task.filesOwned.join` on a value that is not an array.
buildPromptThrows(v) == v.filesOwned.type # "array"

MainInit ==
    /\ permits = CONCURRENCY_LIMITS
    /\ queue = [t \in Tier |-> <<>>]
    /\ arrivals = [t \in Tier |-> <<>>]
    /\ sem = [p \in {Driver} |-> None]
    /\ semaphore = [p \in {Driver} |-> None]
    /\ outcome = {}
    /\ gates = Tier
    /\ via = [p \in {Driver} |-> None]
    /\ pc = [p \in {Driver} |-> "main"]
    /\ task = NoTask
    /\ errors = <<>>
    /\ patchResult = NoPatchResult
    /\ prompt = <<>>
    /\ iters = 0
    /\ nEscalations = 0
    /\ failures = {}
    /\ recorded = NoFailure
    /\ log = <<>>
    /\ steps = <<>>
    /\ modelResponse = <<>>
    /\ arg \in {[kind |-> "main", manifest |-> m, input |-> i] :
                    m \in Manifests, i \in MainInputs}
    /\ res = NoResult

\* process.exit(code)
Exit(code) ==
    /\ pc' = [pc EXCEPT ![Driver] = "exited"]
    /\ res' = [fn |-> "main", exit |-> code]
    /\ UNCHANGED <<arg, gateVars, driverVars>>

\* main up to the workspace check.
MainCheckHealth ==
    /\ pc[Driver] = "main"
    /\ IF ~checkWorkspaceHealth(arg.manifest).valid
       THEN Exit(1)
       ELSE /\ pc' = [pc EXCEPT ![Driver] = "readTaskInput"]
            /\ UNCHANGED <<fnVars, gateVars, driverVars>>

\* readTaskInput returns, or throws when the text cannot be read or parsed.
MainReadTaskInput ==
    /\ pc[Driver] = "readTaskInput"
    /\ IF ~arg.input.parses
       THEN Exit(1)
       ELSE /\ pc' = [pc EXCEPT ![Driver] = "start"]
            /\ UNCHANGED <<fnVars, gateVars, driverVars>>

\* runOrchestrator begins with the parsed input; a TypeError of createTask or
\* of the task_created event reaches main().catch, the task createTask built
\* being lost with it.
MainStart ==
    /\ pc[Driver] = "start"
    /\ IF createTaskThrows(arg.input.value) \/ TaskCreatedThrows(arg.input.value)
       THEN Exit(1)
       ELSE StartWith(InputOf(arg.input.value))

\* readFiles or buildPrompt throws a TypeError on the task's filesOwned, which
\* reaches main().catch.
MainReadFilesThrows ==
    /\ pc[Driver] = "readFiles"
    /\ readFilesThrows(arg.input.value) \/ buildPromptThrows(arg.input.value)
    /\ Exit(1)

\* readFiles and buildPrompt end without a throw.
MainReadFilesDone ==
    /\ pc[Driver] = "readFiles"
    /\ ~readFilesThrows(arg.input.value)
    /\ ~buildPromptThrows(arg.input.value)
    /\ ReadFilesDone

\* The driver is suspended on input or output: reading files, a gate's queue,
\* the model call, the patch application or the verification commands.
AwaitsIO ==
    \/ pc[Driver] = "readFiles" /\ ~readFilesThrows(arg.input.value)
    \/ pc[Driver] \in {"create", "applyPatch", "verify"}
    \/ pc[Driver] = "acquire" /\ sem[Driver] = "pending"

\* handleShutdown: SIGINT or SIGTERM arrives while the driver is suspended;
\* process.exit(0).
MainShutdown ==
    /\ AwaitsIO
    /\ Exit(0)

\* runOrchestrator returned: process.exit(0) or process.exit(1).
MainReturn ==
    /\ pc[Driver] \in {"succeeded", "aborted"}
    /\ Exit(IF pc[Driver] = "succeeded" THEN 0 ELSE 1)

\* main().catch: runOrchestrator's promise was rejected; orchestrator_crash and
\* process.exit(1).
MainCrash ==
    /\ pc[Driver] = "crashed"
    /\ Exit(1)

MainNext ==
    \/ MainCheckHealth
    \/ MainReadTaskInput
    \/ MainStart
    \/ LoopAbort
    \/ LoopIterate
    \/ MainReadFilesThrows
    \/ MainReadFilesDone
    \/ AcquireResume(Driver)
    \/ CreateResolves
    \/ CreateRejects
    \/ FinallyAfterReturn
    \/ FinallyAfterThrow
    \/ ModelCallFails
    \/ ModelCallReturns
    \/ ApplyFails
    \/ ApplySucceeds
    \/ ApplyThrows
    \/ VerifyPasses
    \/ VerifyFails
    \/ MainShutdown
    \/ MainReturn
    \/ MainCrash

MainSpec == MainInit /\ [][MainNext]_vars

\* ------------------------------------------------------------------ claims

Procs == DOMAIN pc

\* A context releases the gate of tier t in this step.
Releases(t) ==
    \E p \in Procs : semaphore[p] = t /\ pc[p] = "create" /\ pc'[p] # "create"

\* The contexts waiting at the gate of tier t that this step unblocks.
Unblocked(t) ==
    {q \in Procs : semaphore[q] = t /\ sem[q] = "pending" /\ sem'[q] = "resolved"}

\* The contexts whose acquire() on the gate of tier t this step admits at once.
AdmittedAtOnce(t) ==
    {q \in Procs : semaphore[q] = None /\ semaphore'[q] = t /\ sem'[q] = "resolved"}

\* C1: at every tier, the contexts admitted by acquire() that have not yet
\* released never outnumber the tier's configured capacity.
C1_CapacityNeverExceeded ==
    \A t \in Tier : Cardinality(Holders(t)) <= CONCURRENCY_LIMITS[t]

\* C1 witness: the fast gate is full (four holders, all in their model call)
\* while a fifth context waits for it.
C1_Witness ==
    /\ Cardinality(Holders("fast")) = CONCURRENCY_LIMITS["fast"]
    /\ \A p \in Holders("fast") : pc[p] = "create"
    /\ Len(queue["fast"]) > 0

\* C2: with waiters queued, each release() unblocks exactly one waiter, the
\* one that called acquire() first; nothing else unblocks a waiter; and an
\* acquire() that arrives while a waiter is queued is not admitted.
C2_FifoHandoff ==
    [][\A t \in Tier :
        /\ (Releases(t) /\ arrivals[t] # <<>>) => Unblocked(t) = {Head(arrivals[t])}
        /\ ~Releases(t) => Unblocked(t) = {}
        /\ arrivals[t] # <<>> => AdmittedAtOnce(t) = {}]_vars

\* C2 witness: a release() has unblocked a waiter while a later one still waits.
C2_Witness ==
    \E t \in Tier : \E q \in Procs :
        /\ via[q] = "handoff"
        /\ semaphore[q] = t
        /\ Len(arrivals[t]) > 0
        /\ Cardinality(Holders(t)) = CONCURRENCY_LIMITS[t]

\* C3: once every withPermit call has completed, by return or by throw, each
\* gate's free capacity is its configured capacity again.
C3_NoSlotLeak ==
    (\A p \in Procs : semaphore[p] = None) => permits = CONCURRENCY_LIMITS

\* C3 witness: all calls have completed, some by return and some by throw.
C3_Witness ==
    /\ \A p \in Procs : semaphore[p] = None
    /\ outcome = {"returned", "threw"}
    /\ permits = CONCURRENCY_LIMITS

\* The driver ends a failed attempt in this step: the iteration's `continue`
\* or the end of the loop body after a verification failure.
AttemptFails ==
    /\ pc[Driver] \in {"callModelReturned", "callModelThrew", "applyPatch", "verify"}
    /\ pc'[Driver] = "loop"

\* The driver's model call fails in this step.
ModelFailure ==
    /\ pc[Driver] = "callModelThrew"
    /\ pc'[Driver] = "loop"
    /\ recorded'.kind = "model"

\* The task's tier changes or an "escalation" event is logged in this step.
EscalationStep ==
    \/ task'.tier # task.tier
    \/ nEscalations' # nEscalations

\* C4: task.attempt goes up by exactly 1 in each loop iteration that reaches
\* the increment step and changes nowhere else, so at every point of a run it
\* equals the number of iterations that reached that step.
C4_AttemptCountsIterations ==
    pc[Driver] # "start" => task.attempt = iters

\* C5: the task's total attempt counter is at most the global cap of 5 in
\* every state of a run, the terminal ones included.
C5_TotalAttemptsWithinCap ==
    task.attempt <= MAX_TOTAL_ATTEMPTS

\* C6: an escalation moves the task to the immediate successor tier with that
\* tier's counter at 0 and leaves the global attempt counter, the other
\* tiers' counters, the id, the description and the owned files unchanged.
C6_EscalateFrame ==
    [][nEscalations' = nEscalations + 1 =>
        /\ task'.tier = getNextTier(task.tier)
        /\ task'.tierAttempts[task'.tier] = 0
        /\ task'.attempt = task.attempt
        /\ \A t \in Tier \ {task'.tier} : task'.tierAttempts[t] = task.tierAttempts[t]
        /\ task'.id = task.id
        /\ task'.description = task.description
        /\ task'.filesOwned = task.filesOwned]_vars

\* C7: a failed attempt after which the abort condition holds is followed by
\* no tier transition and no escalation event.
C7_AbortBeforeEscalation ==
    [][(AttemptFails /\ shouldAbort(task)) => ~EscalationStep]_vars

\* C8: the attempt counter of the task's current tier is at most the per-tier
\* cap of 2 in every state of a run.
C8_TierAttemptsWithinCap ==
    pc[Driver] # "start" => task.tierAttempts[task.tier] <= MAX_ATTEMPTS_PER_TIER

\* C9: a model-call failure is followed by the evaluation of shouldEscalate:
\* when it is true the task is escalated before the next iteration.
C9_ModelFailureEscalates ==
    [][(ModelFailure /\ shouldEscalate(task)) =>
        /\ task'.tier = getNextTier(task.tier)
        /\ nEscalations' = nEscalations + 1]_vars

\* C10: a task that starts at fast, fails verification on its first two
\* attempts and passes on its third iteration completes at tier deep with
\* total attempts 3 and exactly one escalation event.
C10_EscalationScenario ==
    (/\ pc[Driver] = "succeeded"
     /\ selectInitialTier(task) = "fast"
     /\ failures = {"verify"}
     /\ iters = 3)
    => (task.tier = "deep" /\ task.attempt = 3 /\ nEscalations = 1)

\* C11: once the total attempt counter has reached the cap of 5 the loop runs
\* no further attempt and the driver ends Aborted; when the attempt that failed
\* last failed at verification, the error list the driver holds at the abort
\* (lastErrors of task_abort) is that verification failure's error list.
C11_AbortKeepsLastErrors ==
    /\ (pc[Driver] = "loop" /\ task.attempt >= MAX_TOTAL_ATTEMPTS)
            => (ENABLED LoopAbort /\ ~ENABLED LoopIterate)
    /\ (/\ pc[Driver] = "aborted"
        /\ task.attempt >= MAX_TOTAL_ATTEMPTS
        /\ recorded.kind = "verify")
            => (errors = recorded.verify /\ Len(errors) > 0)

\* C11 witness: the driver has aborted with its attempts exhausted, every
\* failed attempt having failed at verification, and holds the error list of
\* the last of them.
C11_Witness ==
    /\ pc[Driver] = "aborted"
    /\ task.attempt >= MAX_TOTAL_ATTEMPTS
    /\ failures = {"verify"}
    /\ errors = recorded.verify
    /\ Len(errors) > 0

\* C11 as stated: when a task has exhausted its 5 total attempts and is
\* Aborted, no attempt having passed verification, the error list it holds is
\* the error list of the most recent verification failure.
C11_LastErrorsAreVerifyErrors ==
    (/\ pc[Driver] = "aborted"
     /\ task.attempt >= MAX_TOTAL_ATTEMPTS
     /\ "verify" \in failures)
        => errors = recorded.verify

\* C12: a task that starts at tier fast and whose first attempt yields a valid
\* diff that applies and passes verification is Succeeded with attempt 1 at
\* tier fast, after a single iteration (one model call) and no escalation,
\* and runs no further.
C12_FirstTrySuccess ==
    (/\ pc[Driver] = "succeeded"
     /\ selectInitialTier(task) = "fast"
     /\ failures = {})
        => /\ task.attempt = 1
           /\ task.tier = "fast"
           /\ task.tierAttempts = [fast |-> 1, deep |-> 0, reviewer |-> 0]
           /\ iters = 1
           /\ nEscalations = 0
           /\ ~ENABLED DriverNext

\* C12 witness: a task that started at fast has succeeded without a failed
\* attempt.
C12_Witness ==
    /\ pc[Driver] = "succeeded"
    /\ selectInitialTier(task) = "fast"
    /\ failures = {}
    /\ task.tier = "fast"
    /\ task.attempt = 1

\* The bullets of a prompt's error section that list exactly the errors errs.
BulletsOf(errs) == [i \in 1..Len(errs) |-> <<"-", " ">> \o errs[i] \o <<"\n">>]

\* C13: in every attempt after the first, the errors listed in the attempt's
\* prompt are exactly those the immediately preceding failed attempt recorded
\* (whether it failed at the model call, the parse, the apply or the verify
\* step, and whether or not it escalated), and nothing of an earlier attempt.
C13_PromptHoldsLatestErrors ==
    (pc[Driver] \in {"acquire", "create"} /\ iters > 1)
        => /\ prompt.errors = BulletsOf(recorded.errors)
           /\ Len(prompt.errors) > 0

\* C13 witness: a third or later attempt, the first of its tier after an
\* escalation, is calling the model with the errors of the attempt before it,
\* earlier attempts having failed at other steps.
C13_Witness ==
    /\ pc[Driver] = "create"
    /\ iters > 2
    /\ nEscalations > 0
    /\ task.tierAttempts[task.tier] = 1
    /\ Cardinality(failures) > 1
    /\ prompt.errors = BulletsOf(recorded.errors)

\* The tier t has a successor in the order of the tiers.
HasSuccessor(t) == \E i \in 1..(Len(TIER_ORDER) - 1) : TIER_ORDER[i] = t

\* C14: shouldEscalate(task) is true exactly when the attempt counter of the
\* task's current tier is at least the per-tier cap and the current tier has
\* a successor; for a task at reviewer it is false whatever the counters.
C14_ShouldEscalateIff ==
    res.fn = "shouldEscalate" =>
        /\ res.value <=> (/\ arg.task.tierAttempts[arg.task.tier] >= MAX_ATTEMPTS_PER_TIER
                          /\ HasSuccessor(arg.task.tier))
        /\ arg.task.tier = "reviewer" => res.value = FALSE

\* C14 witness: shouldEscalate has answered false for a task at reviewer whose
\* tier counter is past the cap.
C14_Witness ==
    /\ res.fn = "shouldEscalate"
    /\ arg.task.tier = "reviewer"
    /\ arg.task.tierAttempts["reviewer"] > MAX_ATTEMPTS_PER_TIER
    /\ res.value = FALSE

\* C15: shouldAbort(task) is true exactly when the total attempt counter is at
\* least the global cap, or the current tier's counter is at least the
\* per-tier cap and the current tier has no successor.
C15_ShouldAbortIff ==
    res.fn = "shouldAbort" =>
        (res.value <=>
            \/ arg.task.attempt >= MAX_TOTAL_ATTEMPTS
            \/ /\ arg.task.tierAttempts[arg.task.tier] >= MAX_ATTEMPTS_PER_TIER
               /\ ~HasSuccessor(arg.task.tier))

\* C15 witness: shouldAbort has answered true for a task at reviewer below
\* the global cap whose tier counter is at the per-tier cap.
C15_Witness ==
    /\ res.fn = "shouldAbort"
    /\ arg.task.tier = "reviewer"
    /\ arg.task.attempt < MAX_TOTAL_ATTEMPTS
    /\ arg.task.tierAttempts["reviewer"] = MAX_ATTEMPTS_PER_TIER
    /\ res.value = TRUE

\* C16: escalateTask applied to a task at the last tier throws and yields no
\* task, whatever the counters: no task is ever produced from reviewer.
C16_EscalateLastTierFails ==
    (res.fn = "escalateTask" /\ arg.task.tier = "reviewer")
        => ("threw" \in DOMAIN res /\ "value" \notin DOMAIN res)

\* C16 witness: escalateTask has thrown for a task at reviewer with counters
\* at zero.
C16_Witness ==
    /\ res.fn = "escalateTask"
    /\ arg.task.tier = "reviewer"
    /\ arg.task.attempt = 0
    /\ arg.task.tierAttempts["reviewer"] = 0
    /\ "threw" \in DOMAIN res

\* C17: a task starts at deep when it owns more than 5 files or its
\* description is longer than 1000 characters, at fast otherwise (5 files
\* with 1000 characters start at fast, 6 files or 1001 characters at deep),
\* and never at reviewer.
C17_InitialTier ==
    res.fn = "createTask" =>
        /\ (arg.input.filesOwned <= 5 /\ arg.input.description <= 1000)
                => res.value.tier = "fast"
        /\ arg.input.filesOwned >= 6 => res.value.tier = "deep"
        /\ arg.input.description >= 1001 => res.value.tier = "deep"
        /\ res.value.tier # "reviewer"

\* C17 witness: a task of 5 files and 1000 characters has been created at fast.
C17_Witness ==
    /\ res.fn = "createTask"
    /\ arg.input.filesOwned = 5
    /\ arg.input.description = 1000
    /\ res.value.tier = "fast"

\* The number of lines of a diff that add or remove a line.
Changed(lines) == Cardinality({i \in 1..Len(lines) : lines[i] \in ChangeLines})

\* C18: parsePatch counts as changed exactly the lines of the diff that begin
\* with + or - but not with +++ or ---; a diff with at most 300 changed lines
\* is accepted with that count, and one with more (301) is rejected with the
\* exact count and no diff text.
C18_ChangedLineCount ==
    (res.fn = "parsePatch" /\ arg.block) =>
        /\ res.value.linesChanged = Changed(arg.lines)
        /\ Changed(arg.lines) <= 300 => res.value.success
        /\ Changed(arg.lines) > 300 =>
                (~res.value.success /\ "patch" \notin DOMAIN res.value)

\* C18 witness: a diff with header lines and 301 changed lines has been
\* rejected with linesChanged 301.
C18_Witness ==
    /\ res.fn = "parsePatch"
    /\ arg.block
    /\ \E i \in 1..Len(arg.lines) : arg.lines[i] = HeaderNew
    /\ Changed(arg.lines) = 301
    /\ ~res.value.success
    /\ res.value.linesChanged = 301

\* C19: the result of parsePatch is an acceptance with the diff text and its
\* changed-line count and no reason, or a rejection with a reason and no diff
\* text; for a response without a fenced diff block it is the rejection "No
\* diff block found in response" with no diff text and no line count.
C19_AcceptanceOrRejection ==
    res.fn = "parsePatch" =>
        /\ res.value.success =>
                /\ {"patch", "linesChanged"} \subseteq DOMAIN res.value
                /\ "error" \notin DOMAIN res.value
        /\ ~res.value.success =>
                /\ "error" \in DOMAIN res.value
                /\ "patch" \notin DOMAIN res.value
        /\ ~arg.block =>
                /\ ~res.value.success
                /\ res.value.error = TextNoDiffBlock
                /\ DOMAIN res.value = {"success", "error"}

\* C19 witness: a response with a diff fence that is never closed has been
\* rejected.
C19_Witness ==
    /\ res.fn = "parsePatch"
    /\ ~arg.block
    /\ TextIndexOf(arg.response, FenceOpen, 1) > 0
    /\ ~res.value.success
    /\ res.value.error = TextNoDiffBlock

\* The command of a run was started.
Spawned(run) == run.spawns

\* The positions of the commands of a list that fail: they do not start, or
\* exit with a code other than 0.
Failed(runs) == {i \in 1..Len(runs) : ~runs[i].spawns \/ runs[i].exitCode # 0}

\* C20: runVerification runs every command of the list in order, going on
\* after one that fails (the logs hold an entry for each command that ran,
\* in order), and returns success exactly when every command started and
\* exited with 0, none being timed out; the error list is present exactly
\* when success is false, and then has at least one entry for every failed
\* command.
C20_VerifyAllCommands ==
    res.fn = "runVerification" =>
        /\ res.value.success <=> Failed(arg.runs) = {}
        /\ res.value.success => \A i \in 1..Len(arg.runs) : ~arg.runs[i].timedOut
        /\ "errors" \in DOMAIN res.value <=> ~res.value.success
        /\ ~res.value.success =>
                Len(res.value.errors) >= Cardinality(Failed(arg.runs))
        /\ res.value.logs =
                Join([i \in 1..Len(SelectSeq(arg.runs, Spawned)) |->
                        LogEntry(SelectSeq(arg.runs, Spawned)[i])], TextBlankLine)

\* The event ev is in the log of the driver's current iteration.
Logged(ev) == \E i \in 1..Len(log) : log[i] = ev

\* The step of the driver's current iteration has ended in this way.
Did(step) == \E i \in 1..Len(steps) : steps[i] = step

\* C21: patch_applied is logged for an attempt only once applyPatch has
\* finished and succeeded on the attempt's diff, and no attempt logs both
\* patch_applied and patch_rejected.
C21_AppliedMeansApplied ==
    /\ Logged(info("patch_applied")) => Did("applyPatch succeeded")
    /\ ~(Logged(info("patch_applied")) /\ Logged(warn("patch_rejected")))

\* The manifest is a parseable project manifest that declares at least one
\* runnable script.
DeclaresScript(m) ==
    /\ m.exists
    /\ m.parses
    /\ m.pkg.type = "object"
    /\ m.pkg.scripts.type = "object"
    /\ m.pkg.scripts.keys >= 1

\* C23: checkWorkspaceHealth reports the workspace valid only if it holds a
\* parseable manifest that declares at least one runnable script; a missing
\* or unparseable manifest, one without a scripts section and one whose
\* scripts section is empty are reported invalid, with a reason.
C23_ValidOnlyWithScript ==
    res.fn = "checkWorkspaceHealth" =>
        /\ res.value.valid => DeclaresScript(arg.manifest)
        /\ ~res.value.valid => "reason" \in DOMAIN res.value

\* The workspace manifest is missing or invalid: not a parseable object with
\* a scripts section.
InvalidManifest(m) ==
    ~(m.exists /\ m.parses /\ m.pkg.type = "object" /\ m.pkg.scripts.type = "object")

\* The task input is malformed: unparseable, or without a string description
\* or a list of owned files.
MalformedInput(i) ==
    \/ ~i.parses
    \/ i.value.type # "object"
    \/ i.value.description.type # "string"
    \/ i.value.filesOwned.type # "array"

\* C22: with a missing or invalid workspace manifest or a malformed task
\* input, no task is created and no attempt is made, and the process exits
\* with a code other than 0.
C22_FatalStartup ==
    (InvalidManifest(arg.manifest) \/ MalformedInput(arg.input))
        => /\ task = NoTask
           /\ iters = 0
           /\ pc[Driver] = "exited" => res.exit # 0

\* The steps of an iteration in which everything succeeded.
SuccessfulIteration ==
    <<"incrementAttempt", "readFiles", "callModel returned", "parsePatch accepted",
      "applyPatch succeeded", "runVerification succeeded">>

\* Verification is running or has run in the current iteration.
VerificationRun ==
    \/ pc[Driver] = "verify"
    \/ Did("runVerification succeeded")
    \/ Did("runVerification failed")

\* C24: the driver is in Succeeded only after an iteration whose model call
\* returned, whose patch was accepted and applied and whose verification
\* passed, in this order; verification runs only in an iteration whose model
\* call, parse and apply all succeeded.
C24_SuccessNeedsEveryStep ==
    /\ pc[Driver] = "succeeded" => steps = SuccessfulIteration
    /\ VerificationRun =>
          /\ SubSeq(steps, 1, 5) = SubSeq(SuccessfulIteration, 1, 5)
          /\ ~Did("callModel threw")
          /\ ~Did("parsePatch rejected")
          /\ ~Did("applyPatch failed")

C24_Witness == pc[Driver] = "succeeded" /\ Did("runVerification succeeded")

\* The driver's run has ended.
Terminal == pc[Driver] \in {"succeeded", "aborted"}

\* C25: when every call returns, the driver's run reaches Succeeded or
\* Aborted, and it never starts more than 5 loop iterations.
C25_TerminatesWithinFive ==
    /\ <>Terminal
    /\ [](iters <= MAX_TOTAL_ATTEMPTS)

\* C26: in no state of a driver's run are shouldEscalate(task) and
\* shouldAbort(task) both true.
C26_EscalateAndAbortExclude ==
    task # NoTask => ~(shouldEscalate(task) /\ shouldAbort(task))

\* The gates whose slot the context p holds: it was admitted and has not
\* released.
Held(p) == {t \in Tier : semaphore[p] = t /\ sem[p] # "pending"}

\* The context p waits on a gate.
Waits(p) == sem[p] = "pending"

\* C27: the driver holds at most one slot, that of its task's tier, and only
\* during the model call; no context waits on a gate while it holds a slot,
\* and a gate on which a context waits is held by contexts that do not wait.
C27_OneSlotDuringModelCall ==
    /\ Cardinality(Held(Driver)) <= 1
    /\ Held(Driver) \subseteq {task.tier}
    /\ Held(Driver) # {} => pc[Driver] \in {"acquire", "create", "fnReturned", "fnThrew"}
    /\ pc[Driver] \notin {"acquire", "create", "fnReturned", "fnThrew"} =>
          /\ semaphore[Driver] = None
          /\ \A t \in Tier : \A i \in 1..Len(queue[t]) : queue[t][i] # Driver
    /\ \A p \in DOMAIN pc :
          Waits(p) => /\ Held(p) = {}
                      /\ Holders(semaphore[p]) # {}
                      /\ \A q \in Holders(semaphore[p]) : ~Waits(q)

C27_Witness ==
    /\ Waits(Driver)
    /\ \E p \in Peers : Held(p) = {task.tier}
    /\ failures # {}

\* The step from the task old to the task new adds one to the global counter
\* and to the counter of the task's tier and changes nothing else.
IncrementsOnce(old, new) ==
    /\ new.attempt = old.attempt + 1
    /\ new.tierAttempts[old.tier] = old.tierAttempts[old.tier] + 1
    /\ \A t \in Tier \ {old.tier} : new.tierAttempts[t] = old.tierAttempts[t]
    /\ new.tier = old.tier
    /\ new.id = old.id
    /\ new.description = old.description
    /\ new.filesOwned = old.filesOwned
    /\ DOMAIN new = DOMAIN old

\* The step begins an iteration of the driver's loop.
BeginsIteration == iters' = iters + 1

\* C28: the step that begins an iteration applies incrementAttempt to the
\* task, adding one to the global counter and to the current tier's counter
\* and changing nothing else; it is the first step of the iteration, and no
\* later step of the iteration (file read, model call, patch apply,
\* verification) applies it again.
C28_IncrementOncePerIteration ==
    [][/\ BeginsIteration =>
            /\ IncrementsOnce(task, task')
            /\ steps' = <<"incrementAttempt">>
       /\ (~BeginsIteration /\ steps' # steps) =>
            /\ steps # <<>>
            /\ Head(steps) = "incrementAttempt"
            /\ Len(steps') > Len(steps)
            /\ SubSeq(steps', 1, Len(steps)) = steps
            /\ \A i \in 2..Len(steps') : steps'[i] # "incrementAttempt"
            /\ task'.tier = task.tier => task'.tierAttempts = task.tierAttempts
            /\ task'.attempt = task.attempt \/ task'.tier # task.tier]_vars

C28_Witness ==
    /\ iters = 3
    /\ steps = <<"incrementAttempt", "readFiles">>
    /\ task.tier = "deep"
    /\ task.tierAttempts["deep"] = 1

\* The lines of the output that are diagnostics of the command: for an
\* unrecognised command no line is.
Diagnostics(output, command) ==
    IF Includes(command, TextTypecheck) \/ Includes(command, TextTsc)
    THEN SelectSeq(Split(output), IsTsError)
    ELSE IF Includes(command, TextLint) \/ Includes(command, TextEslint)
    THEN SelectSeq(Split(output), IsLintError)
    ELSE IF Includes(command, TextBuild)
    THEN SelectSeq(Split(output), IsBuildError)
    ELSE <<>>

\* C29: for an output without a diagnostic line of the command, parseErrors
\* returns one entry holding the first 500 characters of the output when the
\* output has text, and the generic message when it has none, whatever the
\* command.
C29_FallbackToRawOutput ==
    (res.fn = "parseErrors" /\ Diagnostics(arg.output, arg.command) = <<>>) =>
        IF Len(Trim(arg.output)) > 0
        THEN /\ Len(res.value) = 1
             /\ Includes(res.value[1], Slice(arg.output, 500))
        ELSE res.value = <<arg.command \o TextNonZeroExit>>

\* C30: at every gate the free permits are between 0 and the capacity, the
\* free permits and the contexts admitted and not yet released add up to the
\* capacity, and contexts wait only when no permit is free.
C30_PermitAccounting ==
    \A t \in Tier :
        /\ permits[t] \in 0..CONCURRENCY_LIMITS[t]
        /\ permits[t] + Cardinality(Holders(t)) = CONCURRENCY_LIMITS[t]
        /\ Len(queue[t]) > 0 => permits[t] = 0

\* C30 witness: a gate with a free permit and a holder has been full with a
\* context waiting, which was then handed a slot.
C30_Witness ==
    \E t \in Tier :
        /\ permits[t] > 0
        /\ Holders(t) # {}
        /\ \E p \in Holders(t) : via[p] = "handoff"

\* C31: when every admitted context releases, every context that waits on a
\* gate is admitted in the end.
C31_EveryWaiterAdmitted ==
    \A p \in Ctxs : Waits(p) ~> (sem[p] = "resolved")

\* C31 witness: two contexts that waited have both been handed a slot.
C31_Witness ==
    \E p, q \in Ctxs :
        /\ p # q
        /\ via[p] = "handoff"
        /\ via[q] = "handoff"

\* The task's tier changes in this step of a run that has a task.
TierChanges == task # NoTask /\ task'.tier # task.tier

\* An "escalation" event is logged in this step.
EscalationLogged == nEscalations' = nEscalations + 1

\* C32: the tier of a task changes only in a step that logs an escalation,
\* every escalation changes it, each change goes to the next tier of
\* fast, deep, reviewer, and so a run has at most two escalations, as many
\* as the tiers the task has moved from the one it started at.
C32_TierMovesOneForward ==
    /\ [](/\ nEscalations <= 2
          /\ task # NoTask =>
                nEscalations = IndexOf(task.tier) - IndexOf(selectInitialTier(task)))
    /\ [][/\ TierChanges <=> (task # NoTask /\ EscalationLogged)
          /\ TierChanges => IndexOf(task'.tier) = IndexOf(task.tier) + 1
          /\ nEscalations' \in {nEscalations, nEscalations + 1}]_vars

C32_Witness ==
    /\ nEscalations = 2
    /\ task.tier = "reviewer"
    /\ selectInitialTier(task) = "fast"

\* C33: a run ends at a tier at which an attempt was made: the tier a task
\* was escalated to is attempted before the run ends, and the finalTier of
\* task_abort is a tier with at least one attempt.
C33_FinalTierAttempted ==
    Terminal => task.tierAttempts[task.tier] >= 1

\* The driver ends its model call in this step by rejecting the patch.
DriverRejects ==
    /\ pc[Driver] = "callModelReturned"
    /\ pc'[Driver] = "loop"
    /\ recorded'.kind = "parse"

\* The driver ends its model call in this step by taking the patch as accepted.
DriverAccepts ==
    /\ pc[Driver] = "callModelReturned"
    /\ pc'[Driver] \notin {"callModelReturned", "loop"}

\* C34: the driver rejects a response only when parsePatch rejected it, with
\* the reason parsePatch gave, and a response parsePatch accepted goes to
\* applyPatch in the same iteration.
C34_AcceptedPatchIsApplied ==
    [][/\ DriverRejects =>
            \E resp \in Responses :
                /\ ~parsePatch(resp).success
                /\ recorded'.errors = <<parsePatch(resp).error>>
       /\ DriverAccepts =>
            /\ pc'[Driver] = "applyPatch"
            /\ iters' = iters
            /\ \E resp \in Responses :
                /\ parsePatch(resp).success
                /\ patchResult' = parsePatch(resp)]_vars

====
